---- MODULE Spec2Model ----
(***************************************************************************)
(* PyUpgrader: the manifest diff (hashing.compare_databases), the update   *)
(* orchestrator (update.UpdateManager) and the update executor             *)
(* (utilities/file_updater.py), modelled as one state machine.             *)
(*                                                                         *)
(* A path is a pair <<dirname, basename>>; the directory "" is the project *)
(* root.  A manifest (the "hashes" table of a hash database) is a function *)
(* from a set of paths to fingerprints.  A file tree is a function from a  *)
(* set of paths to contents.  An optional value (a file that may be        *)
(* missing) is a sequence of length 0 or 1.                                *)
(***************************************************************************)
EXTENDS Integers, Sequences, FiniteSets, TLC

\* Bound: the number of consecutive check_update calls that are followed.
MaxChecks == 2

None == <<>>
Some(x) == <<x>>
IsSome(o) == Len(o) = 1
Val(o) == o[1]

Root == ""
Paths == {<<Root, "a">>, <<"d", "b">>}
SubDirs == {"d"}
Contents == {"c1", "c2"}
Hashes == {"h1", "h2"}

\* os.path.dirname of a project-relative path
dirname(p) == p[1]

\* SHA-256 restricted to the contents of the model (collision free on them)
create_hash(c) == IF c = "c1" THEN "h1" ELSE "h2"

\* The content whose fingerprint is h: what the remote serves for an entry
ContentOf(h) == CHOOSE c \in Contents : create_hash(c) = h

Manifests == UNION {[S -> Hashes] : S \in SUBSET Paths}

\* The directories a file tree needs (os.makedirs / the walk of the builder)
DirsOf(files) == {dirname(p) : p \in DOMAIN files} \ {Root}

\* Every ordering of a finite set: the order of list(set(...)) is arbitrary
SeqsOf(S) ==
    {s \in [1..Cardinality(S) -> S] : \A i, j \in 1..Cardinality(S) : s[i] = s[j] => i = j}

Range(s) == {s[i] : i \in 1..Len(s)}

(***************************************************************************)
(* packaging.version.Version, release segment only.  A version string is a *)
(* sequence of components, a component a sequence of decimal digits:       *)
(* "1.10.0" is <<<<1>>, <<1, 0>>, <<0>>>>.                                 *)
(***************************************************************************)
RECURSIVE DigitsToInt(_)
DigitsToInt(ds) ==
    IF Len(ds) = 0 THEN 0
    ELSE 10 * DigitsToInt(SubSeq(ds, 1, Len(ds) - 1)) + ds[Len(ds)]

\* Version(s): the release tuple of integers
Version(s) == [i \in 1..Len(s) |-> DigitsToInt(s[i])]

\* Tuple comparison of two release tuples, the shorter one padded with zeros
RECURSIVE ReleaseGT(_, _, _)
ReleaseGT(a, b, i) ==
    LET ai == IF i <= Len(a) THEN a[i] ELSE 0
        bi == IF i <= Len(b) THEN b[i] ELSE 0
    IN  IF i > Len(a) /\ i > Len(b) THEN FALSE
        ELSE IF ai # bi THEN ai > bi
        ELSE ReleaseGT(a, b, i + 1)

\* A plausible slip: the version strings compared as text, character by
\* character ("1.9.0" > "1.10.0" because '9' > '1')
RECURSIVE TextGT(_, _, _)
TextGT(a, b, i) ==
    IF i > Len(a) THEN FALSE
    ELSE IF i > Len(b) THEN TRUE
    ELSE IF a[i] # b[i] THEN a[i] > b[i]
    ELSE TextGT(a, b, i + 1)

\* the characters of a version string, '.' written as -1 (below every digit)
RECURSIVE Chars(_)
Chars(s) ==
    IF Len(s) = 0 THEN <<>>
    ELSE IF Len(s) = 1 THEN s[1]
    ELSE s[1] \o <<-1>> \o Chars(Tail(s))

VersionGT_Text(web, local) == TextGT(Chars(web), Chars(local), 1)

\* web_version > local_version, both parsed from their strings
VersionGT(web, local) == ReleaseGT(Version(web), Version(local), 1)

V_1_9_0 == <<<<1>>, <<9>>, <<0>>>>
V_1_9_9 == <<<<1>>, <<9>>, <<9>>>>
V_1_10_0 == <<<<1>>, <<1, 0>>, <<0>>>>
V_2_0_0 == <<<<2>>, <<0>>, <<0>>>>
VersionStrings == {V_1_9_0, V_1_9_9, V_1_10_0, V_2_0_0}

(***************************************************************************)
(* hashing.compare_databases: the four lists of a DBSummary.  The lists    *)
(* are built from sets and hold no duplicate, so they are kept as sets.    *)
(***************************************************************************)
\* A plausible slip: the local-only list not reduced by the cloud keys
compare_databases_NoSubtract(local_db_files, cloud_db_files) ==
    LET common_files == DOMAIN local_db_files \cap DOMAIN cloud_db_files
    IN  [unique_files_local_db |-> DOMAIN local_db_files,
         unique_files_cloud_db |-> DOMAIN cloud_db_files \ DOMAIN local_db_files,
         ok_files |-> {<<p, local_db_files[p]>> : p \in
                          {q \in common_files : local_db_files[q] = cloud_db_files[q]}},
         bad_files |-> {<<p, local_db_files[p], cloud_db_files[p]>> : p \in
                          {q \in common_files : local_db_files[q] # cloud_db_files[q]}}]

\* A plausible slip: every common file reported as matching
compare_databases_AllOk(local_db_files, cloud_db_files) ==
    LET common_files == DOMAIN local_db_files \cap DOMAIN cloud_db_files
    IN  [unique_files_local_db |-> DOMAIN local_db_files \ DOMAIN cloud_db_files,
         unique_files_cloud_db |-> DOMAIN cloud_db_files \ DOMAIN local_db_files,
         ok_files |-> {<<p, local_db_files[p]>> : p \in common_files},
         bad_files |-> {<<p, local_db_files[p], cloud_db_files[p]>> : p \in
                          {q \in common_files : local_db_files[q] # cloud_db_files[q]}}]

\* A plausible slip: the two set differences taken the wrong way round
compare_databases_SwappedUnique(local_db_files, cloud_db_files) ==
    LET common_files == DOMAIN local_db_files \cap DOMAIN cloud_db_files
    IN  [unique_files_local_db |-> DOMAIN cloud_db_files \ DOMAIN local_db_files,
         unique_files_cloud_db |-> DOMAIN local_db_files \ DOMAIN cloud_db_files,
         ok_files |-> {<<p, local_db_files[p]>> : p \in
                          {q \in common_files : local_db_files[q] = cloud_db_files[q]}},
         bad_files |-> {<<p, local_db_files[p], cloud_db_files[p]>> : p \in
                          {q \in common_files : local_db_files[q] # cloud_db_files[q]}}]

compare_databases(local_db_files, cloud_db_files) ==
    LET common_files == DOMAIN local_db_files \cap DOMAIN cloud_db_files
    IN  [unique_files_local_db |-> DOMAIN local_db_files \ DOMAIN cloud_db_files,
         unique_files_cloud_db |-> DOMAIN cloud_db_files \ DOMAIN local_db_files,
         ok_files |-> {<<p, local_db_files[p]>> : p \in
                          {q \in common_files : local_db_files[q] = cloud_db_files[q]}},
         bad_files |-> {<<p, local_db_files[p], cloud_db_files[p]>> : p \in
                          {q \in common_files : local_db_files[q] # cloud_db_files[q]}}]

(***************************************************************************)
(* State.                                                                  *)
(***************************************************************************)
VARIABLES
    files,          \* the install: project-relative path -> content
    dirs,           \* the install: the subdirectories that exist
    localConfig,    \* .pyupgrader/config.yaml, optional
    localDbs,       \* .pyupgrader/<name>: database name -> optional manifest
    cloudConfig,    \* the release config the remote serves
    cloudDb,        \* the manifest the remote serves at <url>/<hash_db>
    mgr,            \* the UpdateManager of the running application, optional:
                    \* its _local_hash_db_path as set by _validate_attributes
    checkResult,    \* the dict last returned by check_update, optional
    nChecks,        \* check_update calls made in a row
    apiErr,         \* the exception the last UpdateManager call raised
    staging,        \* the staging directory (file_dir) and its settings folder
    pc,             \* the position of the executor process
    idx,            \* the position in the merge / delete loop
    details,        \* update_details as loaded by the executor, optional
    err,            \* the exception the executor run raised
    cause,          \* the exception it was raised from (raise ... from ...)
    log,            \* the LOGGER.info milestones of the executor run
    restarted,      \* os.execv(startup_path) was issued by this run
    crashLog,       \* the LOGGER.exception records in the log file of the run
    exitStatus,     \* the exit status of the executor process, optional
    lastOk,         \* history: the descriptor of the preceding run, if it succeeded
    chained,        \* history: this run repeats the preceding, successful run
    startInstall,   \* history: the install a repeating run started from, optional
    updAtLoad,      \* history: an update was available when this run loaded
    filesAtLoad,    \* history: the project files when the merge began, optional
    cmpLocal,       \* compare_databases called directly: the first database
    cmpCloud,       \* ... the second database
    cmpAB,          \* ... the summary of (first, second), optional
    cmpBA,          \* ... the summary of (second, first), optional
    hashDir,        \* create_hash_db: the directory to hash and the exclusions
    hashStore,      \* create_hash_db: the database file at db_save_path
    hasher,         \* create_hash_db: the Hasher and its walk
    hashFile,       \* create_hash: the file at file_path
    hashRun,        \* create_hash: the call, chunk by chunk
    net,            \* WebHandler: what the remote answers for each URL
    web,            \* WebHandler: the call, its queue, its threads, the disk
    yamlDoc,        \* Config.load_yaml / loads_yaml: the document to load
    yamlOut,        \* Config.load_yaml / loads_yaml: what the call gave
    umEnv,          \* UpdateManager attributes: the project folders and the URLs
    um,             \* UpdateManager attributes: the object, optional
    umOut           \* UpdateManager attributes: the last call, its steps, its error

installVars == <<files, dirs, localConfig, localDbs>>
mgrVars == <<mgr, checkResult, nChecks, apiErr>>
execVars == <<pc, idx, details, err, cause, log, restarted, crashLog, exitStatus>>
remoteVars == <<cloudConfig, cloudDb>>
histVars == <<lastOk, chained, startInstall, updAtLoad, filesAtLoad>>
cmpVars == <<cmpLocal, cmpCloud, cmpAB, cmpBA>>
buildVars == <<hashDir, hashStore, hasher>>
hashVars == <<hashFile, hashRun>>
webVars == <<net, web>>
cfgVars == <<yamlDoc, yamlOut>>
umVars == <<umEnv, um, umOut>>
toolVars == <<buildVars, hashVars, webVars, cfgVars, umVars>>
vars == <<files, dirs, localConfig, localDbs, cloudConfig, cloudDb, mgr, checkResult,
          nChecks, apiErr, staging, pc, idx, details, err, cause, log, restarted, crashLog,
          exitStatus, lastOk,
          chained, startInstall, updAtLoad, filesAtLoad, cmpLocal, cmpCloud, cmpAB, cmpBA,
          hashDir, hashStore, hasher, hashFile, hashRun, net, web,
          yamlDoc, yamlOut, umEnv, um, umOut>>

DbNames == {"hashes.db", "files.db"}
EmptyTree == [p \in {} |-> "c1"]

\* The install as a whole: project files, directories, local config, local manifests
Install == [files |-> files, dirs |-> dirs, config |-> localConfig, dbs |-> localDbs]

\* A release config with its six required keys
Config(version, description, hash_db, required_only, cleanup) ==
    [version |-> version, description |-> description, hash_db |-> hash_db,
     startup_path |-> "main.py", required_only |-> required_only, cleanup |-> cleanup]

NoStaging ==
    [exists |-> FALSE, files |-> EmptyTree, config |-> None, hash_db |-> None,
     actions |-> None]

\* The manifest the manager reads as the local hash database, optional
LocalDb == IF IsSome(mgr) THEN localDbs[Val(mgr)] ELSE None

(***************************************************************************)
(* Initial states: an install whose manifest was built from its files, a   *)
(* validated manager, any remote release, nothing staged, no executor.     *)
(***************************************************************************)
InitInstall(m, name, version) ==
    /\ files = [p \in DOMAIN m |-> ContentOf(m[p])]
    /\ dirs = DirsOf(m)
    /\ localConfig = Some(Config(version, "local", name, FALSE, FALSE))
    /\ localDbs = [n \in DbNames |-> IF n = name THEN Some(m) ELSE None]
    /\ mgr = Some(name)

InitRest ==
    /\ checkResult = None
    /\ nChecks = 0
    /\ apiErr = "none"
    /\ staging = NoStaging
    /\ pc = "idle"
    /\ idx = 1
    /\ details = None
    /\ err = "none"
    /\ cause = "none"
    /\ log = <<>>
    /\ restarted = FALSE
    /\ crashLog = <<>>
    /\ exitStatus = None
    /\ lastOk = None
    /\ chained = FALSE
    /\ startInstall = None
    /\ updAtLoad = FALSE
    /\ filesAtLoad = None

(***************************************************************************)
(* The directory a manifest is built from.  A path is the sequence of its  *)
(* components: /home/app/ex/y is <<"home", "app", "ex", "y">>.  The model   *)
(* has the project root /home/app with a folder named like the project, a  *)
(* folder ex that can be excluded and holds another folder named like the  *)
(* project, and a file outside the project.                                *)
(***************************************************************************)
HashRoot == <<"home", "app">>
ExDir == <<"home", "app", "ex">>
RootFile == <<"home", "app", "x">>
BuildFiles ==
    {RootFile, <<"home", "app", "app", "x">>, <<"home", "app", "ex", "y">>,
     <<"home", "app", "ex", "app", "x">>}
OutsideFile == <<"home", "other", "x">>

\* A file that cannot be read has no content to hash
Unreadable == "unreadable"
BuildTrees == UNION {[S -> Contents \cup {Unreadable}] : S \in SUBSET BuildFiles}

\* os.path.basename, os.path.dirname
basename(path) == path[Len(path)]
parent(path) == SubSeq(path, 1, Len(path) - 1)

IsPrefix(a, b) == Len(a) <= Len(b) /\ SubSeq(b, 1, Len(a)) = a

\* a in b for two paths (str.__contains__), component by component
IsInfix(a, b) ==
    \E i \in 0..(Len(b) - Len(a)) : SubSeq(b, i + 1, i + Len(a)) = a

\* os.path.isdir / os.path.isfile in the tree
isdir(tree, path) == \E f \in DOMAIN tree : IsPrefix(path, parent(f))
isfile(tree, path) == path \in DOMAIN tree

EmptyRows == [k \in {} |-> "h1"]
NoStore == [exists |-> FALSE, rows |-> EmptyRows, pending |-> EmptyRows]
OldStore == [exists |-> TRUE, rows |-> (<<"old">> :> "h1"), pending |-> EmptyRows]
\* Seconds of the budget of a batch, and the most one directory takes; the
\* clock is read in whole seconds and need not be followed past the budget
max_time_per_batch == 3

MaxTick == 2

Tick(elapsed, t) ==
    IF elapsed + t >= max_time_per_batch THEN max_time_per_batch ELSE elapsed + t

\* hasher.elapsed is time.time() - start_time; produced, inserted and
\* flushed_at record the results handed back by the workers, the results
\* passed to _process_batch_data and the clock at each insert of the loop
NoHasher ==
    [pc |-> "idle", path_basename |-> None, exclude_file_paths |-> {},
     exclude_dir_paths |-> {}, todo |-> {}, batch_data |-> <<>>, opened |-> {},
     err |-> "none", probe |-> None,
     elapsed |-> 0, produced |-> <<>>, inserted |-> <<>>, flushed_at |-> <<>>]

InitBuildIdle ==
    /\ hashDir = [tree |-> EmptyTree, exclude_paths |-> {}, exclude_patterns |-> {}]
    /\ hashStore = NoStore
    /\ hasher = NoHasher

(***************************************************************************)
(* The file create_hash reads, as a sequence of bytes (bits here), and the *)
(* sizes of the code scaled down with their ratio kept: a chunk of 4096    *)
(* bytes is 2, a chunk of 8192 is 4, the size of 1_000_000_000 above which *)
(* the larger chunk is used is 3.                                          *)
(***************************************************************************)
\* Bound: the length of the longest file
MaxFileLen == 5
ChunkSize4K == 2
ChunkSize8K == 4
LargeFileSize == 3

Bytes == {0, 1}
FileContents == UNION {[1..n -> Bytes] : n \in 0..MaxFileLen}
NoHashRun ==
    [pc |-> "idle", chunk_size |-> 0, pos |-> 0, hasher |-> 0, file_hash |-> None,
     err |-> "none"]

InitHashIdle ==
    /\ hashFile = [state |-> "missing", bytes |-> <<>>]
    /\ hashRun = NoHashRun

(***************************************************************************)
(* The downloads of WebHandler: two URLs of the remote, each with a place  *)
(* to save it, and for each URL what a request for it does.                *)
(***************************************************************************)
Urls == {"url/hashes.db", "url/a"}
SavePath(url) == IF url = "url/hashes.db" THEN "tmp/hashes.db" ELSE "tmp/a"
NetOutcomes == {"ok", "http_error", "conn_error", "drops"}
\* Bound: the largest max_threads a WebHandler is constructed with
MaxThreads == 2
NoDisk == [f \in {} |-> "complete"]
NoWeb ==
    [pc |-> "idle", max_threads |-> 5, call |-> "none", requested |-> {},
     task_queue |-> <<>>,
     threads |-> [u \in {} |-> "submitted"], disk |-> NoDisk, returned |-> None,
     raised |-> "none"]

InitWebIdle ==
    /\ net = [u \in Urls |-> "ok"]
    /\ web = NoWeb

(***************************************************************************)
(* A YAML document as Config sees it once yaml.safe_load has parsed it: a  *)
(* mapping with some keys, a sequence of some strings, or nothing at all   *)
(* (an empty file).                                                        *)
(***************************************************************************)
RequiredKeys ==
    <<"version", "description", "hash_db", "startup_path", "required_only", "cleanup">>
YamlDocs ==
    [kind : {"mapping", "sequence"}, names : SUBSET Range(RequiredKeys)]
        \cup {[kind |-> "empty", names |-> {}]}
NoYamlOut == [pc |-> "idle", call |-> "none", data |-> None, raised |-> "none", error |-> ""]

InitCfgIdle ==
    /\ yamlDoc = [kind |-> "empty", names |-> {}]
    /\ yamlOut = NoYamlOut

(***************************************************************************)
(* The attributes of an UpdateManager.  A project folder is in one of six  *)
(* conditions, from missing to complete; a URL answers or does not.        *)
(***************************************************************************)
ProjectPaths == {"proj", "proj2"}
ManagerUrls == {"url1", "url2"}
FolderStates == {"missing", "no_pyupgrader", "no_config", "bad_config", "no_hash_db", "ok"}
NoUmOut == [call |-> "none", raised |-> "none", steps |-> <<>>, before |-> None]

InitUmIdle ==
    /\ umEnv = [folders |-> [p \in ProjectPaths |-> "ok"], reachable |-> ManagerUrls]
    /\ um = None
    /\ umOut = NoUmOut

InitCmpIdle ==
    /\ cmpLocal = EmptyTree
    /\ cmpCloud = EmptyTree
    /\ cmpAB = None
    /\ cmpBA = None

Init ==
    /\ \E m \in Manifests, version \in {V_1_9_0, V_1_10_0} :
          InitInstall(m, "hashes.db", version)
    /\ \E version \in {V_1_9_0, V_1_10_0}, ro \in BOOLEAN, cl \in BOOLEAN :
          cloudConfig = Config(version, "cloud", "hashes.db", ro, cl)
    /\ cloudDb \in Manifests
    /\ InitRest
    /\ InitCmpIdle
    /\ InitBuildIdle
    /\ InitHashIdle
    /\ InitWebIdle
    /\ InitCfgIdle
    /\ InitUmIdle

(***************************************************************************)
(* update.UpdateManager: the orchestrator.  Its calls are made by the      *)
(* running application, that is while no executor process is running.     *)
(***************************************************************************)
Without(f, p) == [q \in DOMAIN f \ {p} |-> f[q]]
\* A plausible slip: the destination tree replaced by the copied file
With_Only(f, p, c) == [q \in {p} |-> c]
With(f, p, c) == [q \in DOMAIN f \cup {p} |-> IF q = p THEN c ELSE f[q]]

AppRuns == pc = "idle" /\ IsSome(mgr)

\* UpdateManager.__init__ / _validate_attributes in a newly started
\* application process: the local config must load, the database it names
\* must exist
Construct ==
    /\ pc \in {"done", "failed"}
    /\ pc' = "idle"
    /\ IF IsSome(localConfig) /\ IsSome(localDbs[Val(localConfig).hash_db])
       THEN mgr' = Some(Val(localConfig).hash_db) /\ apiErr' = "none"
       ELSE mgr' = None /\ apiErr' = "FileNotFoundError"
    /\ nChecks' = 0
    /\ idx' = 1
    /\ details' = None
    /\ err' = "none"
    /\ cause' = "none"
    /\ log' = <<>>
    /\ restarted' = FALSE
    /\ crashLog' = <<>>
    /\ exitStatus' = None
    /\ chained' = FALSE
    /\ startInstall' = None
    /\ updAtLoad' = FALSE
    /\ filesAtLoad' = None
    /\ UNCHANGED <<installVars, remoteVars, checkResult, staging, lastOk, cmpVars, toolVars>>

\* The dict check_update returns
check_update(web_config, local_config) ==
    IF VersionGT(web_config.version, local_config.version)
    THEN [has_update |-> TRUE, description |-> web_config.description,
          web_version |-> Version(web_config.version),
          local_version |-> Version(local_config.version)]
    ELSE [has_update |-> FALSE, description |-> local_config.description,
          web_version |-> Version(web_config.version),
          local_version |-> Version(local_config.version)]

\* A plausible slip: the fetched remote config saved over the local one
CheckUpdate_SavesConfig ==
    /\ AppRuns
    /\ nChecks < MaxChecks
    /\ nChecks' = nChecks + 1
    /\ apiErr' = "none"
    /\ checkResult' = Some(check_update(cloudConfig, Val(localConfig)))
    /\ localConfig' = Some(cloudConfig)
    /\ UNCHANGED <<files, dirs, localDbs, remoteVars, mgr, staging, execVars, histVars, cmpVars, toolVars>>

\* UpdateManager.check_update; netOk: the GET of the remote config succeeds
CheckUpdate ==
    /\ AppRuns
    /\ nChecks < MaxChecks
    /\ nChecks' = nChecks + 1
    /\ \E netOk \in BOOLEAN :
          IF ~netOk
          THEN apiErr' = "ConnectionError" /\ UNCHANGED checkResult
          ELSE IF ~IsSome(localConfig)
          THEN apiErr' = "FileNotFoundError" /\ UNCHANGED checkResult
          ELSE /\ apiErr' = "none"
               /\ checkResult' = Some(check_update(cloudConfig, Val(localConfig)))
    /\ UNCHANGED <<installVars, remoteVars, mgr, staging, execVars, histVars, cmpVars, toolVars>>

\* A plausible slip: the unchanged files listed with the changed ones
get_files_WithOk(updated_only, compare_db, cloud_db) ==
    IF updated_only
    THEN {u \o b : u \in SeqsOf(compare_db.unique_files_cloud_db),
                   b \in SeqsOf({t[1] : t \in compare_db.bad_files}
                                \cup {t[1] : t \in compare_db.ok_files})}
    ELSE SeqsOf(DOMAIN cloud_db)

\* UpdateManager.get_files: the orderings the returned list can have
get_files(updated_only, compare_db, cloud_db) ==
    IF updated_only
    THEN {u \o b : u \in SeqsOf(compare_db.unique_files_cloud_db),
                   b \in SeqsOf({t[1] : t \in compare_db.bad_files})}
    ELSE SeqsOf(DOMAIN cloud_db)

\* The files a download of `list` leaves in save_path when it stops after
\* the first k files
Downloaded(tree, list, k) ==
    [p \in DOMAIN tree \cup {list[i] : i \in 1..k} |->
        IF p \in {list[i] : i \in 1..k} THEN ContentOf(cloudDb[p]) ELSE tree[p]]

\* A plausible slip: the cleanup flag taken from the local config
UpdateDetails_LocalCleanup(update, delete) ==
    [update |-> update, delete |-> delete, project_path |-> Root,
     downloads_directory |-> "file_dir", startup_path |-> cloudConfig.startup_path,
     cloud_config_path |-> "config.yaml", cloud_hash_db_path |-> "hashes.db",
     cleanup |-> Val(localConfig).cleanup]

\* update_details as prepare_update builds it
UpdateDetails(update, delete) ==
    [update |-> update, delete |-> delete, project_path |-> Root,
     downloads_directory |-> "file_dir", startup_path |-> cloudConfig.startup_path,
     cloud_config_path |-> "config.yaml", cloud_hash_db_path |-> "hashes.db",
     cleanup |-> cloudConfig.cleanup]

\* A plausible slip: the changed files deleted along with the local-only ones
delete_list_WithBad(db_summary) ==
    SeqsOf(db_summary.unique_files_local_db \cup {t[1] : t \in db_summary.bad_files})

\* update_details["delete"]: list(db_summary.unique_files_local_db)
delete_list(db_summary) == SeqsOf(db_summary.unique_files_local_db)

\* A plausible slip: the required_only flag left out of the test
NoUpdate_IgnoresFlag(required_only, update, delete) ==
    Len(update) = 0 /\ Len(delete) = 0

\* The test that makes prepare_update raise NoUpdateError
NoUpdate(required_only, update, delete) ==
    required_only /\ Len(update) = 0 /\ Len(delete) = 0

\* The values of the file_dir argument: none (a temporary directory is made
\* and filled), the staging directory of an earlier call, or an empty
\* directory the caller made
FileDirs == {"", "staging", "empty"}

\* A plausible slip: the descriptor pickled before the downloads, so that a
\* download that fails leaves it behind
PrepareUpdate_PickleFirst ==
    /\ AppRuns
    /\ nChecks' = 0
    /\ IsSome(LocalDb)
    /\ LET db_summary == compare_databases(Val(LocalDb), cloudDb)
       IN  \E update \in get_files(cloudConfig.required_only, db_summary, cloudDb),
              delete \in delete_list(db_summary) :
              staging' = [exists |-> TRUE, files |-> EmptyTree, config |-> Some(cloudConfig),
                          hash_db |-> Some(cloudDb),
                          actions |-> Some(UpdateDetails(update, delete))]
    /\ apiErr' = "ConnectionError"
    /\ UNCHANGED <<installVars, remoteVars, mgr, checkResult, execVars, histVars, cmpVars, toolVars>>

\* UpdateManager.prepare_update(file_dir).  With a file_dir given nothing is
\* downloaded into it (download_files stays False).
\* fault: the download that fails, if one does.
PrepareUpdate ==
    /\ AppRuns
    /\ nChecks' = 0
    /\ \E file_dir \in {d \in FileDirs : d = "staging" => staging.exists},
          fault \in {"none", "config", "hash_db", "files"} :
          IF fault = "config" \/ ~IsSome(LocalDb)
          THEN /\ apiErr' = IF fault = "config" THEN "ConnectionError" ELSE "OperationalError"
               /\ UNCHANGED staging
          ELSE LET db_summary == compare_databases(Val(LocalDb), cloudDb)
                   given == file_dir # ""
                   base == IF file_dir = "staging" THEN staging.files ELSE EmptyTree
                   settings == [exists |-> TRUE, files |-> base, config |-> Some(cloudConfig),
                                hash_db |-> Some(cloudDb), actions |-> None]
               IN  IF fault = "hash_db"
                   THEN /\ staging' = [settings EXCEPT !.config = None, !.hash_db = None]
                        /\ apiErr' = "ConnectionError"
                   ELSE
                   \E update \in get_files(cloudConfig.required_only, db_summary, cloudDb),
                      delete \in delete_list(db_summary) :
                      IF fault = "files"
                      THEN /\ ~given /\ Len(update) > 0
                           /\ \E k \in 0..(Len(update) - 1) :
                                 staging' = [settings EXCEPT !.files = Downloaded(base, update, k)]
                           /\ apiErr' = "ConnectionError"
                      ELSE IF NoUpdate(cloudConfig.required_only, update, delete)
                      THEN /\ staging' = NoStaging
                           /\ apiErr' = "NoUpdateError"
                      ELSE /\ staging' =
                                 [settings EXCEPT
                                    !.files = IF given THEN base
                                              ELSE Downloaded(base, update, Len(update)),
                                    !.actions = Some(UpdateDetails(update, delete))]
                           /\ apiErr' = "none"
    /\ UNCHANGED <<installVars, remoteVars, mgr, checkResult, execVars, histVars, cmpVars, toolVars>>

\* A plausible slip: the executor started as a child process, the caller
\* going on
Update_Spawns ==
    /\ AppRuns
    /\ nChecks' = 0
    /\ staging.exists /\ IsSome(staging.actions)
    /\ pc' = "load"
    /\ apiErr' = "none"
    /\ UNCHANGED <<mgr, checkResult, idx, details, err, cause, log, restarted, crashLog, exitStatus, histVars>>
    /\ UNCHANGED <<installVars, remoteVars, staging, cmpVars, toolVars>>

\* UpdateManager.update(actions_path): os.execv of the executor, which
\* replaces the application process
Update ==
    /\ AppRuns
    /\ nChecks' = 0
    /\ IF staging.exists /\ IsSome(staging.actions)
       THEN /\ pc' = "load"
            /\ mgr' = None
            /\ checkResult' = None
            /\ apiErr' = "none"
            /\ UNCHANGED <<idx, details, err, cause, log, restarted, crashLog, exitStatus, histVars>>
       ELSE /\ apiErr' = "FileNotFoundError"
            /\ UNCHANGED <<mgr, checkResult, execVars, histVars>>
    /\ UNCHANGED <<installVars, remoteVars, staging, cmpVars, toolVars>>

(***************************************************************************)
(* utilities/file_updater.py: the executor process.                        *)
(***************************************************************************)
\* A plausible slip: the manifest overwritten right after the merge
NextStep_DbFirst(step) ==
    CASE step = "load" -> "merge"
      [] step = "merge" -> "hash_db"
      [] step = "hash_db" -> "delete"
      [] step = "delete" -> "config"
      [] step = "config" -> "cleanup"
      [] step = "cleanup" -> "restart"
      [] OTHER -> "done"

\* A plausible slip: the config overwrite left out of main()
NextStep_SkipsConfig(step) ==
    CASE step = "load" -> "merge"
      [] step = "merge" -> "delete"
      [] step = "delete" -> "hash_db"
      [] step = "hash_db" -> "cleanup"
      [] step = "cleanup" -> "restart"
      [] OTHER -> "done"

\* The order of the calls in main()
NextStep(step) ==
    CASE step = "load" -> "merge"
      [] step = "merge" -> "delete"
      [] step = "delete" -> "config"
      [] step = "config" -> "hash_db"
      [] step = "hash_db" -> "cleanup"
      [] step = "cleanup" -> "restart"
      [] OTHER -> "done"

\* A plausible slip: the exception of a step logged and swallowed, so that
\* main() goes on with the following step
Fail_Swallowed(kind, from) ==
    /\ pc' = NextStep(pc)
    /\ err' = kind
    /\ cause' = from
    /\ idx' = 1
    /\ UNCHANGED <<details, log, restarted, crashLog, exitStatus>>

\* A plausible slip: the exception left to end the process without the
\* LOGGER.exception record
Fail_Silent(kind, from) ==
    /\ pc' = "failed"
    /\ err' = kind
    /\ cause' = from
    /\ exitStatus' = Some(1)
    /\ UNCHANGED <<idx, details, log, restarted, crashLog>>

\* A step raises `kind` from the exception `from`: it leaves main(), the
\* handler of __main__ logs it (LOGGER.exception) and raises UpdateError, which
\* ends the process with status 1.  "OSError" stands for an injected fault, "FileNotFoundError"
\* for a file or directory of the model that is missing
Fail(kind, from) ==
    /\ pc' = "failed"
    /\ err' = kind
    /\ cause' = from
    /\ crashLog' = Append(crashLog, kind)
    /\ exitStatus' = Some(1)
    /\ UNCHANGED <<idx, details, log, restarted>>

\* A step of main() completes: its closing LOGGER.info, then the next call
Complete(milestone) ==
    /\ pc' = NextStep(pc)
    /\ log' = Append(log, milestone)
    /\ idx' = 1
    /\ UNCHANGED <<details, err, cause, restarted, crashLog, exitStatus>>

\* The calls of a step that may raise for a reason outside the model (a
\* permission, a full disk, a file in use), or none of them
FaultChoices(calls) == {"none"} \cup calls

\* A plausible slip: a descriptor that cannot be loaded removed together
\* with its staging directory
ExecLoad_CleansUp ==
    /\ pc = "load"
    /\ Fail("GatherDetailsError", "LoadActionError")
    /\ staging' = NoStaging
    /\ lastOk' = None
    /\ UNCHANGED <<chained, startInstall, updAtLoad, filesAtLoad>>
    /\ UNCHANGED <<installVars, remoteVars, mgrVars, cmpVars, toolVars>>

\* load_action_file and the reading of the eight keys (main, lines 223-238):
\* whatever open or pickle.load raises is raised again as LoadActionError,
\* and that one by main() as GatherDetailsError
ExecLoad ==
    /\ pc = "load"
    /\ \E fault \in FaultChoices({"load"}) :
          /\ IF fault = "load" \/ ~staging.exists \/ ~IsSome(staging.actions)
             THEN /\ Fail("GatherDetailsError", "LoadActionError")
                  /\ lastOk' = None
                  /\ UNCHANGED <<chained, startInstall, updAtLoad, filesAtLoad>>
             ELSE /\ pc' = NextStep(pc)
                  /\ details' = staging.actions
                  /\ log' = Append(log, "gathered")
                  /\ idx' = 1
                  /\ chained' = (lastOk = staging.actions)
                  /\ startInstall' = IF lastOk = staging.actions THEN Some(Install) ELSE None
                  /\ lastOk' = None
                  /\ filesAtLoad' = Some(files)
                  /\ updAtLoad' = (/\ IsSome(localConfig)
                                   /\ VersionGT(cloudConfig.version, Val(localConfig).version))
                  /\ UNCHANGED <<err, cause, restarted, crashLog, exitStatus>>
    /\ UNCHANGED <<installVars, remoteVars, mgrVars, staging, cmpVars, toolVars>>

\* merge_files: one turn of its loop.  fault: the call that raises, if any
MergeFile ==
    /\ pc = "merge"
    /\ idx <= Len(Val(details).update)
    /\ LET file == Val(details).update[idx]
           made == dirs \cup ({dirname(file)} \ {Root})
           removed == Without(files, file)
       IN  \E fault \in FaultChoices({"makedirs", "remove", "copy"}) :
              IF fault = "makedirs"
              THEN Fail("MergeError", "OSError") /\ UNCHANGED <<files, dirs>>
              ELSE IF fault = "remove"
              THEN /\ file \in DOMAIN files
                   /\ Fail("MergeError", "OSError")
                   /\ dirs' = made
                   /\ UNCHANGED files
              ELSE IF fault = "copy" \/ ~staging.exists \/ file \notin DOMAIN staging.files
              THEN /\ Fail("MergeError",
                           IF fault = "copy" THEN "OSError" ELSE "FileNotFoundError")
                   /\ dirs' = made
                   /\ files' = removed
              ELSE /\ dirs' = made
                   /\ files' = With(removed, file, staging.files[file])
                   /\ idx' = idx + 1
                   /\ UNCHANGED <<pc, details, err, cause, log, restarted, crashLog, exitStatus>>
    /\ UNCHANGED <<localConfig, localDbs, remoteVars, mgrVars, staging, histVars, cmpVars, toolVars>>

\* merge_files returns
MergeDone ==
    /\ pc = "merge"
    /\ idx > Len(Val(details).update)
    /\ Complete("merged")
    /\ filesAtLoad' = None
    /\ UNCHANGED <<lastOk, chained, startInstall, updAtLoad>>
    /\ UNCHANGED <<installVars, remoteVars, mgrVars, staging, cmpVars, toolVars>>

\* os.listdir(dir_path) of the install: the project root always holds the
\* .pyupgrader folder
listdir(tree, dir_path) ==
    IF dir_path = Root THEN {p \in DOMAIN tree : dirname(p) = Root} \cup {<<Root, ".pyupgrader">>}
    ELSE {p \in DOMAIN tree : dirname(p) = dir_path}

\* delete_files: one turn of its loop.  fault: the call that raises, if any
DeleteFile ==
    /\ pc = "delete"
    /\ idx <= Len(Val(details).delete)
    /\ LET file == Val(details).delete[idx]
           dir_path == dirname(file)
           removed == Without(files, file)
       IN  \E fault \in FaultChoices({"remove", "rmdir"}) :
              IF fault = "remove"
              THEN /\ file \in DOMAIN files
                   /\ Fail("DeleteError", "OSError")
                   /\ UNCHANGED <<files, dirs>>
              ELSE IF dir_path # Root /\ dir_path \notin dirs
              THEN \* os.listdir of a directory that is gone: FileNotFoundError
                   /\ Fail("DeleteError", "FileNotFoundError")
                   /\ files' = removed
                   /\ UNCHANGED dirs
              ELSE IF fault = "rmdir"
              THEN /\ listdir(removed, dir_path) = {}
                   /\ Fail("DeleteError", "OSError")
                   /\ files' = removed
                   /\ UNCHANGED dirs
              ELSE /\ files' = removed
                   /\ dirs' = IF listdir(removed, dir_path) = {} THEN dirs \ {dir_path} ELSE dirs
                   /\ idx' = idx + 1
                   /\ UNCHANGED <<pc, details, err, cause, log, restarted, crashLog, exitStatus>>
    /\ UNCHANGED <<localConfig, localDbs, remoteVars, mgrVars, staging, histVars, cmpVars, toolVars>>

\* delete_files returns
DeleteDone ==
    /\ pc = "delete"
    /\ idx > Len(Val(details).delete)
    /\ Complete("deleted")
    /\ UNCHANGED <<installVars, remoteVars, mgrVars, staging, histVars, cmpVars, toolVars>>

\* overwrite_config.  fault: the call that raises, if any
OverwriteConfig ==
    /\ pc = "config"
    /\ \E fault \in FaultChoices({"remove", "copy"}) :
          /\ IF ~staging.exists \/ ~IsSome(staging.config)
             THEN Fail("ConfigOverwriteError", "FileNotFoundError") /\ UNCHANGED localConfig
             ELSE IF fault = "remove"
             THEN /\ IsSome(localConfig)
                  /\ Fail("ConfigOverwriteError", "OSError")
                  /\ UNCHANGED localConfig
             ELSE IF fault = "copy"
             THEN Fail("ConfigOverwriteError", "OSError") /\ localConfig' = None
             ELSE Complete("config") /\ localConfig' = staging.config
    /\ UNCHANGED <<files, dirs, localDbs, remoteVars, mgrVars, staging, histVars, cmpVars, toolVars>>

\* overwrite_hash_db: the destination is .pyupgrader/<basename of the staged file>
OverwriteHashDb ==
    /\ pc = "hash_db"
    /\ LET name == Val(details).cloud_hash_db_path
       IN  \E fault \in FaultChoices({"remove", "copy"}) :
              IF ~staging.exists \/ ~IsSome(staging.hash_db)
              THEN Fail("DBOverwriteError", "FileNotFoundError") /\ UNCHANGED localDbs
              ELSE IF fault = "remove"
              THEN /\ IsSome(localDbs[name])
                   /\ Fail("DBOverwriteError", "OSError")
                   /\ UNCHANGED localDbs
              ELSE IF fault = "copy"
              THEN /\ Fail("DBOverwriteError", "OSError")
                   /\ localDbs' = [localDbs EXCEPT ![name] = None]
              ELSE Complete("hash_db") /\ localDbs' = [localDbs EXCEPT ![name] = staging.hash_db]
    /\ UNCHANGED <<files, dirs, localConfig, remoteVars, mgrVars, staging, histVars, cmpVars, toolVars>>

\* A plausible slip: the downloads directory removed whatever the flag
Cleanup_Always ==
    /\ pc = "cleanup"
    /\ staging' = NoStaging
    /\ Complete("cleaned")
    /\ UNCHANGED <<installVars, remoteVars, mgrVars, histVars, cmpVars, toolVars>>

\* main, lines 246-250: shutil.rmtree(downloads_dir) if cleanup
Cleanup ==
    /\ pc = "cleanup"
    /\ IF Val(details).cleanup
       THEN staging' = NoStaging /\ Complete("cleaned")
       ELSE UNCHANGED staging /\ Complete("left")
    /\ UNCHANGED <<installVars, remoteVars, mgrVars, histVars, cmpVars, toolVars>>

\* main, line 255: os.execv(sys.executable, [sys.executable, startup_path])
Restart ==
    /\ pc = "restart"
    /\ pc' = NextStep(pc)
    /\ restarted' = TRUE
    /\ log' = Append(log, "restart")
    /\ lastOk' = details
    /\ UNCHANGED <<idx, details, err, cause, crashLog, exitStatus>>
    /\ UNCHANGED <<chained, startInstall, updAtLoad, filesAtLoad>>
    /\ UNCHANGED <<installVars, remoteVars, mgrVars, staging, cmpVars, toolVars>>

Next ==
    \/ Construct
    \/ PrepareUpdate
    \/ Update
    \/ ExecLoad
    \/ MergeFile
    \/ MergeDone
    \/ DeleteFile
    \/ DeleteDone
    \/ OverwriteConfig
    \/ OverwriteHashDb
    \/ Cleanup
    \/ Restart

Spec == Init /\ [][Next]_vars

(***************************************************************************)
(* UpdateManager.check_update exercised on its own: every pair of version  *)
(* strings, any local and remote manifest, with and without a staged       *)
(* update, the executor never started.                                     *)
(***************************************************************************)
InitCheck ==
    /\ \E m \in Manifests, version \in VersionStrings : InitInstall(m, "hashes.db", version)
    /\ \E version \in VersionStrings, ro \in BOOLEAN :
          cloudConfig = Config(version, "cloud", "hashes.db", ro, FALSE)
    /\ cloudDb \in Manifests
    /\ InitRest
    /\ InitCmpIdle
    /\ InitBuildIdle
    /\ InitHashIdle
    /\ InitWebIdle
    /\ InitCfgIdle
    /\ InitUmIdle

NextCheck ==
    \/ CheckUpdate
    \/ PrepareUpdate

SpecCheck == InitCheck /\ [][NextCheck]_vars

(***************************************************************************)
(* prepare_update while the publisher replaces the remote release.  The    *)
(* call reads the remote six times, one after the other: the config, the   *)
(* manifest of db_sum, the manifest it stages, the manifest download_files *)
(* lists the files from, the files themselves, and the manifest of the     *)
(* last get_files.  The reads from number `switch` on see the new release. *)
(***************************************************************************)
RemoteReads == 6
NewReleases ==
    [config : {Config(V_2_0_0, "cloud", "hashes.db", ro, FALSE) : ro \in BOOLEAN},
     db : Manifests]

InitRace ==
    /\ \E m \in Manifests : InitInstall(m, "hashes.db", V_1_9_0)
    /\ \E ro \in BOOLEAN : cloudConfig = Config(V_1_10_0, "cloud", "hashes.db", ro, FALSE)
    /\ cloudDb \in Manifests
    /\ InitRest
    /\ InitCmpIdle
    /\ InitBuildIdle
    /\ InitHashIdle
    /\ InitWebIdle
    /\ InitCfgIdle
    /\ InitUmIdle

\* UpdateManager.prepare_update() with no file_dir, the remote replaced
\* before its read number `switch` (after the call when switch is beyond
\* the last read: then the call saw one release only)
PrepareUpdateRacing ==
    /\ AppRuns
    /\ IsSome(LocalDb)
    /\ nChecks' = 0
    /\ \E switch \in 1..(RemoteReads + 1) :
      \E new \in IF switch <= RemoteReads /\ cloudConfig.version # V_2_0_0
                  THEN NewReleases ELSE {[config |-> cloudConfig, db |-> cloudDb]} :
        LET replaced == switch <= RemoteReads /\ cloudConfig.version # V_2_0_0
            Db(i) == IF replaced /\ i >= switch THEN new.db ELSE cloudDb
            cloud_config == IF replaced /\ 1 >= switch THEN new.config ELSE cloudConfig
            db_summary == compare_databases(Val(LocalDb), Db(2))
            listed == compare_databases(Val(LocalDb), Db(4))
            files_to_download ==
                IF cloud_config.required_only
                THEN listed.unique_files_cloud_db \cup {t[1] : t \in listed.bad_files}
                ELSE DOMAIN Db(4)
            served == files_to_download \cap DOMAIN Db(5)
            settings == [exists |-> TRUE, files |-> EmptyTree, config |-> Some(cloud_config),
                         hash_db |-> Some(Db(3)), actions |-> None]
        IN  /\ cloudConfig' = IF replaced THEN new.config ELSE cloudConfig
            /\ cloudDb' = IF replaced THEN new.db ELSE cloudDb
            /\ IF served # files_to_download
               THEN /\ \E got \in SUBSET served :
                          staging' = [settings EXCEPT
                                         !.files = [f \in got |-> ContentOf(Db(5)[f])]]
                    /\ apiErr' = "ConnectionError"
               ELSE \E update \in get_files(cloud_config.required_only, db_summary, Db(6)),
                       delete \in delete_list(db_summary) :
                       IF NoUpdate(cloud_config.required_only, update, delete)
                       THEN /\ staging' = NoStaging
                            /\ apiErr' = "NoUpdateError"
                       ELSE /\ staging' =
                                  [settings EXCEPT
                                     !.files = [f \in served |-> ContentOf(Db(5)[f])],
                                     !.actions = Some(
                                         [UpdateDetails(update, delete) EXCEPT
                                             !.startup_path = cloud_config.startup_path,
                                             !.cleanup = cloud_config.cleanup])]
                            /\ apiErr' = "none"
    /\ UNCHANGED <<installVars, mgr, checkResult, execVars, histVars, cmpVars, toolVars>>

NextRace == PrepareUpdateRacing

SpecRace == InitRace /\ [][NextRace]_vars

(***************************************************************************)
(* hashing.compare_databases called directly, in both argument orders, on  *)
(* every pair of manifests over four paths.                                *)
(***************************************************************************)
CmpPaths == {<<Root, "a">>, <<Root, "b">>, <<Root, "c">>, <<"d", "b">>}
CmpManifests == UNION {[S -> Hashes] : S \in SUBSET CmpPaths}

InitCompare ==
    /\ InitInstall(EmptyTree, "hashes.db", V_1_9_0)
    /\ cloudConfig = Config(V_1_9_0, "cloud", "hashes.db", FALSE, FALSE)
    /\ cloudDb = EmptyTree
    /\ InitRest
    /\ InitBuildIdle
    /\ InitHashIdle
    /\ InitWebIdle
    /\ InitCfgIdle
    /\ InitUmIdle
    /\ cmpLocal \in CmpManifests
    /\ cmpCloud \in CmpManifests
    /\ cmpAB = None
    /\ cmpBA = None

\* compare_databases(db1, db2)
CompareAB ==
    /\ cmpAB' = Some(compare_databases(cmpLocal, cmpCloud))
    /\ UNCHANGED <<installVars, remoteVars, mgrVars, staging, execVars, histVars, cmpLocal,
                   cmpCloud, cmpBA, toolVars>>

\* compare_databases(db2, db1)
CompareBA ==
    /\ cmpBA' = Some(compare_databases(cmpCloud, cmpLocal))
    /\ UNCHANGED <<installVars, remoteVars, mgrVars, staging, execVars, histVars, cmpLocal,
                   cmpCloud, cmpAB, toolVars>>

NextCompare ==
    \/ CompareAB
    \/ CompareBA

SpecCompare == InitCompare /\ [][NextCompare]_vars

(***************************************************************************)
(* Building a manifest: Hasher.create_hash_db walks the directory, hashes  *)
(* the files that are not excluded and stores one row per relative path.   *)
(* The names of the model contain one another only as whole components, so *)
(* the substring tests of the code are tests on components here.           *)
(***************************************************************************)
\* re.search(pattern, path) for a pattern that is a plain name
re_search(pattern, path) == \E i \in 1..Len(path) : path[i] = pattern

\* A plausible slip: the directory test never excludes, the walk descends
should_exclude_directory_Never(exclude_dir_paths, root) == FALSE

\* Hasher._should_exclude_directory: exclude_dir_path in root
should_exclude_directory(exclude_dir_paths, root) ==
    \E e \in exclude_dir_paths : IsInfix(e, root)

\* Hasher._should_exclude_directory_by_pattern
should_exclude_directory_by_pattern(exclude_patterns, root) ==
    \E pattern \in exclude_patterns : re_search(pattern, root)

\* Hasher._exclude_files_by_path
exclude_files_by_path(file_paths, exclude_file_paths) == file_paths \ exclude_file_paths

\* Hasher._exclude_files_by_pattern
exclude_files_by_pattern(file_paths, exclude_patterns) ==
    {path \in file_paths : ~\E pattern \in exclude_patterns : re_search(pattern, path)}

\* One entry of os.walk: the files and the sub-directories of root
FilesIn(tree, root) == {f \in DOMAIN tree : parent(f) = root}
DirsIn(tree, root) ==
    {SubSeq(f, 1, Len(root) + 1) :
        f \in {g \in DOMAIN tree : IsPrefix(root, parent(g)) /\ parent(g) # root}}

\* file_path.split(path_basename)[-1].lstrip("/"): the text after the LAST
\* occurrence of the name, the whole path when the name does not occur
relative_file_path(file_path, path_basename) ==
    LET occurs == {i \in 1..Len(file_path) : file_path[i] = path_basename}
        last == IF occurs = {} THEN 0 ELSE CHOOSE i \in occurs : \A j \in occurs : j <= i
    IN  SubSeq(file_path, last + 1, Len(file_path))

\* Hasher._process_batch_data: INSERT OR REPLACE, row after row
RECURSIVE process_batch_data(_, _)
process_batch_data(rows, batch_data) ==
    IF batch_data = <<>> THEN rows
    ELSE LET key == batch_data[1][1]
         IN  process_batch_data(
                 [k \in DOMAIN rows \cup {key} |-> IF k = key THEN batch_data[1][2] ELSE rows[k]],
                 Tail(batch_data))

InitIdleApp ==
    /\ InitInstall(EmptyTree, "hashes.db", V_1_9_0)
    /\ cloudConfig = Config(V_1_9_0, "cloud", "hashes.db", FALSE, FALSE)
    /\ cloudDb = EmptyTree
    /\ InitRest
    /\ InitCmpIdle

InitBuild ==
    /\ InitIdleApp
    /\ hashDir \in [tree : BuildTrees, exclude_paths : SUBSET {ExDir, RootFile},
                    exclude_patterns : SUBSET {"ex"}]
    /\ hashStore \in {NoStore, OldStore}
    /\ hasher = NoHasher
    /\ InitHashIdle
    /\ InitWebIdle
    /\ InitCfgIdle
    /\ InitUmIdle

appVars == <<installVars, remoteVars, mgrVars, staging, execVars, histVars, cmpVars>>

\* create_hash_db up to the walk: the project name, the removal of a store
\* already at db_save_path, the split of exclude_paths, the new table
CreateHashDb ==
    /\ hasher.pc = "idle"
    /\ hashStore' = [exists |-> TRUE, rows |-> EmptyRows, pending |-> EmptyRows]
    /\ hasher' = [hasher EXCEPT
           !.pc = "walk",
           !.path_basename = Some(basename(HashRoot)),
           !.exclude_file_paths = {e \in hashDir.exclude_paths : isfile(hashDir.tree, e)},
           !.exclude_dir_paths = {e \in hashDir.exclude_paths : isdir(hashDir.tree, e)},
           !.todo = {HashRoot},
           !.elapsed = 0, !.produced = <<>>, !.inserted = <<>>, !.flushed_at = <<>>]
    /\ UNCHANGED <<appVars, cfgVars, umVars, hashVars, webVars, hashDir>>

\* A plausible slip: the rows inserted so far are committed when a file fails
HashFails_Commits(file_paths) ==
    /\ hashStore' = [hashStore EXCEPT
           !.rows = process_batch_data(hashStore.pending, hasher.batch_data),
           !.pending = EmptyRows]
    /\ hasher' = [hasher EXCEPT !.pc = "failed", !.err = "HashingError",
                                !.batch_data = <<>>, !.opened = @ \cup file_paths]

\* create_hash raises HashingError inside the walk (the files of the
\* directory were handed to the pool): create_hash_db has no handler, the
\* connection is dropped without a commit
HashFails(file_paths) ==
    /\ hashStore' = [hashStore EXCEPT !.pending = EmptyRows]
    /\ hasher' = [hasher EXCEPT !.pc = "failed", !.err = "HashingError",
                                !.batch_data = <<>>, !.opened = @ \cup file_paths]

\* A plausible slip: the batch is not emptied after an insert of the loop
WalkDir_KeepsBatch ==
    /\ hasher.pc = "walk"
    /\ \E root \in hasher.todo, t \in 0..MaxTick :
        LET elapsed_time == Tick(hasher.elapsed, t) IN
        IF \/ should_exclude_directory(hasher.exclude_dir_paths, root)
           \/ should_exclude_directory_by_pattern(hashDir.exclude_patterns, root)
        THEN /\ hasher' = [hasher EXCEPT !.todo = @ \ {root}, !.elapsed = elapsed_time]
             /\ UNCHANGED hashStore
        ELSE LET file_paths ==
                     exclude_files_by_pattern(
                         exclude_files_by_path(FilesIn(hashDir.tree, root),
                                               hasher.exclude_file_paths),
                         hashDir.exclude_patterns)
             IN  IF \E f \in file_paths : hashDir.tree[f] = Unreadable
                 THEN HashFails(file_paths)
                 ELSE \E order \in SeqsOf(file_paths) :
                      LET results ==
                              [i \in 1..Len(order) |->
                                  <<relative_file_path(order[i], Val(hasher.path_basename)),
                                    create_hash(hashDir.tree[order[i]])>>]
                          batch == hasher.batch_data \o results
                          insert == elapsed_time >= max_time_per_batch /\ batch # <<>>
                      IN  /\ hasher' = [hasher EXCEPT
                                 !.todo = (@ \ {root}) \cup DirsIn(hashDir.tree, root),
                                 !.opened = @ \cup file_paths,
                                 !.batch_data = IF insert THEN batch ELSE batch,
                                 !.elapsed = IF insert THEN 0 ELSE elapsed_time,
                                 !.produced = @ \o results,
                                 !.inserted = IF insert THEN @ \o batch ELSE @,
                                 !.flushed_at = IF insert THEN Append(@, elapsed_time) ELSE @]
                          /\ hashStore' = [hashStore EXCEPT
                                 !.pending = IF insert THEN process_batch_data(@, batch) ELSE @]
    /\ UNCHANGED <<appVars, cfgVars, umVars, hashVars, webVars, hashDir>>

\* One iteration of the os.walk loop of _recursive_hash: t seconds pass while
\* the directory is listed and hashed
WalkDir ==
    /\ hasher.pc = "walk"
    /\ \E root \in hasher.todo, t \in 0..MaxTick :
        LET elapsed_time == Tick(hasher.elapsed, t) IN
        IF \/ should_exclude_directory(hasher.exclude_dir_paths, root)
           \/ should_exclude_directory_by_pattern(hashDir.exclude_patterns, root)
        THEN /\ hasher' = [hasher EXCEPT !.todo = @ \ {root}, !.elapsed = elapsed_time]
             /\ UNCHANGED hashStore
        ELSE LET file_paths ==
                     exclude_files_by_pattern(
                         exclude_files_by_path(FilesIn(hashDir.tree, root),
                                               hasher.exclude_file_paths),
                         hashDir.exclude_patterns)
             IN  IF \E f \in file_paths : hashDir.tree[f] = Unreadable
                 THEN HashFails(file_paths)
                 ELSE \E order \in SeqsOf(file_paths) :
                      LET results ==
                              [i \in 1..Len(order) |->
                                  <<relative_file_path(order[i], Val(hasher.path_basename)),
                                    create_hash(hashDir.tree[order[i]])>>]
                          batch == hasher.batch_data \o results
                          insert == elapsed_time >= max_time_per_batch /\ batch # <<>>
                      IN  /\ hasher' = [hasher EXCEPT
                                 !.todo = (@ \ {root}) \cup DirsIn(hashDir.tree, root),
                                 !.opened = @ \cup file_paths,
                                 !.batch_data = IF insert THEN <<>> ELSE batch,
                                 !.elapsed = IF insert THEN 0 ELSE elapsed_time,
                                 !.produced = @ \o results,
                                 !.inserted = IF insert THEN @ \o batch ELSE @,
                                 !.flushed_at = IF insert THEN Append(@, elapsed_time) ELSE @]
                          /\ hashStore' = [hashStore EXCEPT
                                 !.pending = IF insert THEN process_batch_data(@, batch) ELSE @]
    /\ UNCHANGED <<appVars, cfgVars, umVars, hashVars, webVars, hashDir>>

\* The walk is over: the remaining rows are inserted, commit, close
FinishHashDb ==
    /\ hasher.pc = "walk"
    /\ hasher.todo = {}
    /\ hashStore' = [hashStore EXCEPT
           !.rows = process_batch_data(hashStore.pending, hasher.batch_data),
           !.pending = EmptyRows]
    /\ hasher' = [hasher EXCEPT !.pc = "done", !.batch_data = <<>>,
                                !.inserted = @ \o hasher.batch_data]
    /\ UNCHANGED <<appVars, cfgVars, umVars, hashVars, webVars, hashDir>>

\* _create_path_and_hash called with a file that is not under the project:
\* no statement of it raises for a name that does not occur, the tuple of
\* the path and the hash is returned
CreatePathAndHash ==
    /\ hasher.pc = "done"
    /\ hasher.probe = None
    /\ hasher' = [hasher EXCEPT
           !.probe = Some([raised |-> "none",
                           relative_file_path |->
                               relative_file_path(OutsideFile, Val(hasher.path_basename)),
                           hash |-> create_hash("c1")])]
    /\ UNCHANGED <<appVars, cfgVars, umVars, hashVars, webVars, hashDir, hashStore>>

NextBuild ==
    \/ CreateHashDb
    \/ WalkDir
    \/ FinishHashDb
    \/ CreatePathAndHash

SpecBuild == InitBuild /\ [][NextBuild]_vars

(***************************************************************************)
(* Builder.build: the release folder .pyupgrader of the project is made    *)
(* anew, the default config is written into it and the manifest is built   *)
(* next to it with the folder excluded.  The project can hold a stale      *)
(* release folder and, in its folder named like the project, the release   *)
(* folder of another project.                                              *)
(***************************************************************************)
PyupgraderFolder == HashRoot \o <<".pyupgrader">>
ConfigPath == PyupgraderFolder \o <<"config.yaml">>
HashDbPath == PyupgraderFolder \o <<"hashes.db">>
StaleFile == PyupgraderFolder \o <<"old">>
NestedFolder == <<"home", "app", "app">>
NestedConfig == NestedFolder \o <<".pyupgrader", "config.yaml">>
BuilderFiles == {RootFile, NestedFolder \o <<"x">>, NestedConfig, StaleFile}
BuilderTrees == UNION {[S -> Contents \cup {Unreadable}] : S \in SUBSET BuilderFiles}

\* Builder._env_names (two of the names; env_names adds the dotted ones)
EnvNames == {"venv", ".venv"}

\* The components r".*/\..*" matches: the names of the tree that start with a dot
HiddenNames == {".pyupgrader", ".venv"}

InitBuilder ==
    /\ InitIdleApp
    /\ hashDir \in [tree : BuilderTrees,
                    exclude_paths : SUBSET {HashRoot, NestedFolder},
                    exclude_patterns : {{}},
                    exclude_hidden : BOOLEAN, exclude_envs : BOOLEAN]
    /\ hashStore = NoStore
    /\ hasher = NoHasher
    /\ InitHashIdle
    /\ InitWebIdle
    /\ InitCfgIdle
    /\ InitUmIdle

\* build() up to the walk of create_hash_db: _validate_paths,
\* _create_pyupgrader_folder (rmtree, mkdir), _create_config_file,
\* _create_hash_db with its exclusions, and in create_hash_db the project
\* name, the split of exclude_paths and the store opened at hashes.db
\* (read back as some content, or not readable while it is open)
BuilderBuild ==
    /\ hasher.pc = "idle"
    /\ IF HashRoot \in hashDir.exclude_paths
       THEN /\ hasher' = [hasher EXCEPT !.pc = "failed", !.err = "PathError"]
            /\ UNCHANGED <<hashDir, hashStore>>
       ELSE \E db \in {"c1", Unreadable} :
            LET kept == {f \in DOMAIN hashDir.tree : ~IsPrefix(PyupgraderFolder, f)}
                tree == [f \in kept \cup {ConfigPath, HashDbPath} |->
                            IF f = ConfigPath THEN "c1"
                            ELSE IF f = HashDbPath THEN db
                            ELSE hashDir.tree[f]]
                exclude_paths ==
                    hashDir.exclude_paths \cup {PyupgraderFolder}
                        \cup (IF hashDir.exclude_envs
                              THEN {HashRoot \o <<n>> : n \in EnvNames} ELSE {})
                exclude_patterns ==
                    hashDir.exclude_patterns \cup {"__pycache__"}
                        \cup (IF hashDir.exclude_hidden THEN HiddenNames ELSE {})
            IN  /\ hashDir' = [hashDir EXCEPT !.tree = tree,
                                              !.exclude_paths = exclude_paths,
                                              !.exclude_patterns = exclude_patterns]
                /\ hashStore' = [exists |-> TRUE, rows |-> EmptyRows, pending |-> EmptyRows]
                /\ hasher' = [hasher EXCEPT
                       !.pc = "walk",
                       !.path_basename = Some(basename(HashRoot)),
                       !.exclude_file_paths = {e \in exclude_paths : isfile(tree, e)},
                       !.exclude_dir_paths = {e \in exclude_paths : isdir(tree, e)},
                       !.todo = {HashRoot},
                       !.elapsed = 0, !.produced = <<>>, !.inserted = <<>>,
                       !.flushed_at = <<>>]
    /\ UNCHANGED <<appVars, cfgVars, umVars, hashVars, webVars>>

NextBuilder ==
    \/ BuilderBuild
    \/ WalkDir
    \/ FinishHashDb

SpecBuilder == InitBuilder /\ [][NextBuilder]_vars

(***************************************************************************)
(* Hasher.create_hash, chunk by chunk.  The digest is a small running      *)
(* digest that depends on every byte and on their order, in place of       *)
(* SHA-256: 8 bits, printed as two hexadecimal digits.                     *)
(***************************************************************************)
\* hashlib.sha256(): the initial state of the digest
sha256_new == 7

\* hasher.update(chunk)
RECURSIVE sha256_update(_, _)
sha256_update(h, chunk) ==
    IF chunk = <<>> THEN h
    ELSE sha256_update((h * 3 + chunk[1] + 1) % 256, Tail(chunk))

\* hasher.hexdigest()
HexDigits == <<"0", "1", "2", "3", "4", "5", "6", "7", "8", "9", "a", "b", "c", "d", "e", "f">>
hexdigest(h) == <<HexDigits[(h \div 16) + 1], HexDigits[(h % 16) + 1]>>

\* file.read(chunk_size) at position pos
read(bytes, pos, chunk_size) ==
    SubSeq(bytes, pos + 1, IF pos + chunk_size > Len(bytes) THEN Len(bytes) ELSE pos + chunk_size)

FileStates == {"ok", "missing", "unreadable", "read_error"}

InitHash ==
    /\ InitIdleApp
    /\ InitBuildIdle
    /\ InitWebIdle
    /\ InitCfgIdle
    /\ InitUmIdle
    /\ hashFile \in [state : FileStates, bytes : FileContents]
    /\ hashRun = NoHashRun

\* create_hash up to the first read: the chunk size from the file size, the
\* new digest, open(file_path, "rb"); any exception becomes HashingError
CreateHashOpen ==
    /\ hashRun.pc = "idle"
    /\ IF hashFile.state \in {"missing", "unreadable"}
       THEN hashRun' = [hashRun EXCEPT !.pc = "raised", !.err = "HashingError"]
       ELSE hashRun' = [hashRun EXCEPT
                !.pc = "reading",
                !.chunk_size = IF Len(hashFile.bytes) > LargeFileSize
                               THEN ChunkSize8K ELSE ChunkSize4K,
                !.hasher = sha256_new,
                !.pos = 0]
    /\ UNCHANGED <<appVars, cfgVars, umVars, buildVars, webVars, hashFile>>

\* A plausible slip: a chunk shorter than chunk_size ends the loop unhashed
CreateHashRead_DropsTail ==
    /\ hashRun.pc = "reading"
    /\ hashFile.state = "ok"
    /\ LET chunk == read(hashFile.bytes, hashRun.pos, hashRun.chunk_size)
       IN  IF Len(chunk) < hashRun.chunk_size
           THEN hashRun' = [hashRun EXCEPT
                    !.pc = "returned", !.file_hash = Some(hexdigest(hashRun.hasher))]
           ELSE hashRun' = [hashRun EXCEPT
                    !.hasher = sha256_update(@, chunk), !.pos = @ + Len(chunk)]
    /\ UNCHANGED <<appVars, cfgVars, umVars, buildVars, webVars, hashFile>>

\* One turn of the read loop: an empty chunk ends it with hexdigest(), any
\* other chunk goes into the digest
CreateHashRead ==
    /\ hashRun.pc = "reading"
    /\ hashFile.state = "ok"
    /\ LET chunk == read(hashFile.bytes, hashRun.pos, hashRun.chunk_size)
       IN  IF chunk = <<>>
           THEN hashRun' = [hashRun EXCEPT
                    !.pc = "returned", !.file_hash = Some(hexdigest(hashRun.hasher))]
           ELSE hashRun' = [hashRun EXCEPT
                    !.hasher = sha256_update(@, chunk), !.pos = @ + Len(chunk)]
    /\ UNCHANGED <<appVars, cfgVars, umVars, buildVars, webVars, hashFile>>

\* file.read raises (the device fails under the open file): HashingError
CreateHashReadFails ==
    /\ hashRun.pc = "reading"
    /\ hashFile.state = "read_error"
    /\ hashRun' = [hashRun EXCEPT !.pc = "raised", !.err = "HashingError"]
    /\ UNCHANGED <<appVars, cfgVars, umVars, buildVars, webVars, hashFile>>

NextHash ==
    \/ CreateHashOpen
    \/ CreateHashRead
    \/ CreateHashReadFails

SpecHash == InitHash /\ [][NextHash]_vars

(***************************************************************************)
(* WebHandler.download: the caller puts the downloads on the task queue,   *)
(* _start_downloads hands the start of one DownloadThread per task to the  *)
(* executor, and download returns the queue.  The threads run on their     *)
(* own, so their steps interleave with the return of the call.             *)
(***************************************************************************)
HashDbUrl == "url/hashes.db"

InitWeb ==
    /\ InitIdleApp
    /\ InitBuildIdle
    /\ InitHashIdle
    /\ InitCfgIdle
    /\ InitUmIdle
    /\ net \in [Urls -> NetOutcomes]
    /\ web \in {[NoWeb EXCEPT !.max_threads = n] : n \in 1..MaxThreads}

\* download(downloads) up to _start_downloads: a tuple or a list is put on
\* the queue, anything else raises TypeError
Download ==
    /\ web.pc = "idle"
    /\ \E kind \in {"tuple", "list", "other"} :
        CASE kind = "tuple" ->
                 \E u \in Urls :
                     web' = [web EXCEPT !.pc = "queued", !.call = "download",
                                        !.requested = {u}, !.task_queue = <<u>>]
          [] kind = "list" ->
                 \E S \in SUBSET Urls : \E order \in SeqsOf(S) :
                     web' = [web EXCEPT !.pc = "queued", !.call = "download",
                                        !.requested = S, !.task_queue = order]
          [] kind = "other" ->
                 web' = [web EXCEPT !.pc = "raised", !.call = "download",
                                    !.raised = "TypeError"]
    /\ UNCHANGED <<appVars, cfgVars, umVars, buildVars, hashVars, net>>

\* download_hash_db(save_path) up to _start_downloads: get_config, which
\* raises when the request fails, then download of one tuple
DownloadHashDb ==
    /\ web.pc = "idle"
    /\ \E config_ok \in BOOLEAN :
        IF config_ok
        THEN web' = [web EXCEPT !.pc = "queued", !.call = "download_hash_db",
                                !.requested = {HashDbUrl}, !.task_queue = <<HashDbUrl>>]
        ELSE web' = [web EXCEPT !.pc = "raised", !.call = "download_hash_db",
                                !.raised = "HTTPError"]
    /\ UNCHANGED <<appVars, cfgVars, umVars, buildVars, hashVars, net>>

\* The loop of _start_downloads: while the queue is not empty, take
\* min(max_threads, qsize) tasks from it and submit the start of a
\* DownloadThread for each; nothing waits between two rounds
RECURSIVE start_downloads(_, _, _)
start_downloads(task_queue, max_threads, submitted) ==
    IF task_queue = <<>> THEN submitted
    ELSE LET num_threads ==
                 IF max_threads < Len(task_queue) THEN max_threads ELSE Len(task_queue)
         IN  start_downloads(SubSeq(task_queue, num_threads + 1, Len(task_queue)),
                             max_threads,
                             submitted \cup Range(SubSeq(task_queue, 1, num_threads)))

\* _start_downloads: every task leaves the queue, a DownloadThread is made
\* for it and its start is submitted to the executor
StartDownloads ==
    /\ web.pc = "queued"
    /\ web' = [web EXCEPT
           !.pc = "started",
           !.task_queue = <<>>,
           !.threads = [u \in start_downloads(web.task_queue, web.max_threads, {}) |->
                           "submitted"]]
    /\ UNCHANGED <<appVars, cfgVars, umVars, buildVars, hashVars, net>>

\* return self.task_queue: download, and download_hash_db through it, hand
\* back the queue object as soon as the starts are submitted
DownloadReturns ==
    /\ web.pc = "started"
    /\ web' = [web EXCEPT !.pc = "returned", !.returned = Some("task_queue")]
    /\ UNCHANGED <<appVars, cfgVars, umVars, buildVars, hashVars, net>>

\* DownloadThread.run, the request and open(save_path, "wb"): a request
\* that cannot connect raises in the thread, any response opens the file
ThreadRun ==
    /\ web.pc \in {"started", "returned"}
    /\ \E u \in DOMAIN web.threads :
        /\ web.threads[u] = "submitted"
        /\ IF net[u] = "conn_error"
           THEN web' = [web EXCEPT !.threads[u] = "died"]
           ELSE web' = [web EXCEPT
                    !.threads[u] = "writing",
                    !.disk = [f \in DOMAIN web.disk \cup {SavePath(u)} |->
                                 IF f = SavePath(u) THEN "partial" ELSE web.disk[f]]]
    /\ UNCHANGED <<appVars, cfgVars, umVars, buildVars, hashVars, net>>

\* DownloadThread.run, the chunks: the body of the response is written
\* whatever its status (no raise_for_status); a stream that breaks raises
\* in the thread and leaves the part written so far
ThreadWrite ==
    /\ web.pc \in {"started", "returned"}
    /\ \E u \in DOMAIN web.threads :
        /\ web.threads[u] = "writing"
        /\ CASE net[u] = "ok" ->
                    web' = [web EXCEPT !.threads[u] = "finished",
                                       !.disk[SavePath(u)] = "complete"]
             [] net[u] = "http_error" ->
                    web' = [web EXCEPT !.threads[u] = "finished",
                                       !.disk[SavePath(u)] = "error_page"]
             [] OTHER ->
                    web' = [web EXCEPT !.threads[u] = "died"]
    /\ UNCHANGED <<appVars, cfgVars, umVars, buildVars, hashVars, net>>

NextWeb ==
    \/ Download
    \/ DownloadHashDb
    \/ StartDownloads
    \/ DownloadReturns
    \/ ThreadRun
    \/ ThreadWrite

SpecWeb == InitWeb /\ [][NextWeb]_vars

(***************************************************************************)
(* Config.load_yaml and Config.loads_yaml: parse, then _valid_config.      *)
(***************************************************************************)
\* 'key' not in config, for the six keys in the order of the code; the
\* test is the `in` of the parsed value, which raises TypeError on None
valid_config(config) ==
    IF config.kind = "empty"
    THEN [raised |-> "TypeError", is_valid |-> FALSE, error |-> ""]
    ELSE LET missing == {i \in 1..Len(RequiredKeys) : RequiredKeys[i] \notin config.names}
         IN  IF missing = {}
             THEN [raised |-> "none", is_valid |-> TRUE, error |-> ""]
             ELSE [raised |-> "none", is_valid |-> FALSE,
                   error |-> RequiredKeys[CHOOSE i \in missing : \A j \in missing : i <= j]]

\* The rest of load_yaml / loads_yaml: ValueError(error) when the config is
\* not valid, else the parsed data as it is
load(call, config) ==
    LET v == valid_config(config)
    IN  IF v.raised # "none"
        THEN [pc |-> "raised", call |-> call, data |-> None, raised |-> v.raised, error |-> ""]
        ELSE IF ~v.is_valid
        THEN [pc |-> "raised", call |-> call, data |-> None, raised |-> "ValueError",
              error |-> v.error]
        ELSE [pc |-> "returned", call |-> call, data |-> Some(config), raised |-> "none",
              error |-> ""]

InitConfig ==
    /\ InitIdleApp
    /\ InitBuildIdle
    /\ InitHashIdle
    /\ InitWebIdle
    /\ InitUmIdle
    /\ yamlDoc \in YamlDocs
    /\ yamlOut = NoYamlOut

\* Config.load_yaml(path) on a file that holds the document
LoadYaml ==
    /\ yamlOut.pc = "idle"
    /\ yamlOut' = load("load_yaml", yamlDoc)
    /\ UNCHANGED <<appVars, buildVars, hashVars, webVars, umVars, yamlDoc>>

\* Config.loads_yaml(yaml_string) on the text of the document
LoadsYaml ==
    /\ yamlOut.pc = "idle"
    /\ yamlOut' = load("loads_yaml", yamlDoc)
    /\ UNCHANGED <<appVars, buildVars, hashVars, webVars, umVars, yamlDoc>>

NextConfig ==
    \/ LoadYaml
    \/ LoadsYaml

SpecConfig == InitConfig /\ [][NextConfig]_vars

(***************************************************************************)
(* UpdateManager.__init__, the url and project_path setters, and           *)
(* _validate_attributes, which all three end with.                         *)
(***************************************************************************)
\* The attributes as __init__ assigns them before it validates
Attributes(url, project_path) ==
    [url |-> url, project_path |-> project_path,
     pyupgrader_path |-> <<project_path, ".pyupgrader">>,
     config_path |-> <<project_path, ".pyupgrader", "config.yaml">>,
     local_hash_db_path |-> None, web_man |-> None]

\* _validate_attributes on the attributes a: the attributes it leaves, the
\* exception it raises, and in steps the request and the config load it made
validate_attributes(a) ==
    LET folder == umEnv.folders[a.project_path]
        set == [a EXCEPT
                   !.local_hash_db_path = Some(<<a.project_path, ".pyupgrader", "hashes.db">>),
                   !.web_man = Some(a.url)]
    IN  IF folder = "missing"
        THEN [attrs |-> a, raised |-> "FileNotFoundError", steps |-> <<>>]
        ELSE IF a.url \notin umEnv.reachable
        THEN [attrs |-> a, raised |-> "URLNotValidError", steps |-> <<"request">>]
        ELSE IF folder \in {"no_pyupgrader", "no_config"}
        THEN [attrs |-> a, raised |-> "FileNotFoundError", steps |-> <<"request">>]
        ELSE IF folder = "bad_config"
        THEN [attrs |-> a, raised |-> "ValueError", steps |-> <<"request", "load_yaml">>]
        ELSE IF folder = "no_hash_db"
        THEN [attrs |-> set, raised |-> "FileNotFoundError",
              steps |-> <<"request", "load_yaml">>]
        ELSE [attrs |-> set, raised |-> "none", steps |-> <<"request", "load_yaml">>]

InitManager ==
    /\ InitIdleApp
    /\ InitBuildIdle
    /\ InitHashIdle
    /\ InitWebIdle
    /\ InitCfgIdle
    /\ umEnv \in [folders : [ProjectPaths -> FolderStates], reachable : SUBSET ManagerUrls]
    /\ um = None
    /\ umOut = NoUmOut

\* UpdateManager(url, project_path): an exception leaves no object
ManagerInit ==
    /\ um = None
    /\ \E url \in ManagerUrls, project_path \in ProjectPaths :
        LET v == validate_attributes(Attributes(url, project_path))
        IN  /\ um' = IF v.raised = "none" THEN Some(v.attrs) ELSE None
            /\ umOut' = [call |-> "__init__", raised |-> v.raised, steps |-> v.steps,
                         before |-> None]
    /\ UNCHANGED <<appVars, buildVars, hashVars, webVars, cfgVars, umEnv>>

\* manager.url = value: _url and _web_man are assigned, then validated
UrlSetter ==
    /\ IsSome(um)
    /\ \E value \in ManagerUrls :
        LET v == validate_attributes([Val(um) EXCEPT !.url = value, !.web_man = Some(value)])
        IN  /\ um' = Some(v.attrs)
            /\ umOut' = [call |-> "url", raised |-> v.raised, steps |-> v.steps,
                         before |-> um]
    /\ UNCHANGED <<appVars, buildVars, hashVars, webVars, cfgVars, umEnv>>

\* manager.project_path = value: the three paths are assigned and the
\* manifest path is cleared, then validated
ProjectPathSetter ==
    /\ IsSome(um)
    /\ \E value \in ProjectPaths :
        LET v == validate_attributes(
                     [Attributes(Val(um).url, value) EXCEPT !.web_man = Val(um).web_man])
        IN  /\ um' = Some(v.attrs)
            /\ umOut' = [call |-> "project_path", raised |-> v.raised, steps |-> v.steps,
                         before |-> um]
    /\ UNCHANGED <<appVars, buildVars, hashVars, webVars, cfgVars, umEnv>>

NextManager ==
    \/ ManagerInit
    \/ UrlSetter
    \/ ProjectPathSetter

SpecManager == InitManager /\ [][NextManager]_vars

(***************************************************************************)
(* Properties of the manifest diff.                                        *)
(***************************************************************************)
OkPaths(summary) == {t[1] : t \in summary.ok_files}
BadPaths(summary) == {t[1] : t \in summary.bad_files}

\* C5: the four lists of compare_databases(A, B) are pairwise disjoint by
\* path, hold each path once, and together hold exactly keys(A) \cup keys(B).
C5_DiffPartition ==
    IsSome(cmpAB) =>
        LET s == Val(cmpAB)
            parts == <<s.unique_files_local_db, s.unique_files_cloud_db, OkPaths(s),
                       BadPaths(s)>>
        IN  /\ \A i, j \in 1..4 : i # j => parts[i] \cap parts[j] = {}
            /\ UNION {parts[i] : i \in 1..4} = DOMAIN cmpLocal \cup DOMAIN cmpCloud
            /\ Cardinality(s.ok_files) = Cardinality(OkPaths(s))
            /\ Cardinality(s.bad_files) = Cardinality(BadPaths(s))

\* C5 witness: a diff whose four lists are all non-empty
C5_Witness ==
    /\ IsSome(cmpAB)
    /\ Val(cmpAB).unique_files_local_db # {}
    /\ Val(cmpAB).unique_files_cloud_db # {}
    /\ Val(cmpAB).ok_files # {}
    /\ Val(cmpAB).bad_files # {}

\* C6: swapping the arguments swaps the local-only and the remote-only list,
\* keeps the matching and the mismatched path sets, and swaps the two
\* fingerprints of every mismatched entry.
C6_DiffSymmetry ==
    (IsSome(cmpAB) /\ IsSome(cmpBA)) =>
        LET ab == Val(cmpAB)
            ba == Val(cmpBA)
        IN  /\ ab.unique_files_local_db = ba.unique_files_cloud_db
            /\ ab.unique_files_cloud_db = ba.unique_files_local_db
            /\ OkPaths(ab) = OkPaths(ba)
            /\ BadPaths(ab) = BadPaths(ba)
            /\ {<<t[1], t[3], t[2]>> : t \in ab.bad_files} = ba.bad_files

\* C6 witness: both orders computed on manifests that differ in every way
C6_Witness ==
    /\ IsSome(cmpAB)
    /\ IsSome(cmpBA)
    /\ Val(cmpAB).unique_files_local_db # {}
    /\ Val(cmpBA).unique_files_local_db # {}
    /\ Val(cmpAB).bad_files # {}
    /\ Val(cmpAB).ok_files # {}

\* C7: a common path is in ok_files, with its fingerprint, exactly when the
\* two fingerprints are equal, and in bad_files, with the local and then the
\* remote fingerprint, exactly when they differ; a path of one side only is
\* in that side's unique list; the lists hold nothing else.
C7_DiffClassifies ==
    IsSome(cmpAB) =>
        LET s == Val(cmpAB)
            both == DOMAIN cmpLocal \cap DOMAIN cmpCloud
        IN  /\ \A p \in both :
                  /\ (<<p, cmpLocal[p]>> \in s.ok_files) <=> (cmpLocal[p] = cmpCloud[p])
                  /\ (<<p, cmpLocal[p], cmpCloud[p]>> \in s.bad_files)
                        <=> (cmpLocal[p] # cmpCloud[p])
            /\ \A t \in s.ok_files : t[1] \in both /\ t[2] = cmpLocal[t[1]]
            /\ \A t \in s.bad_files :
                  t[1] \in both /\ t[2] = cmpLocal[t[1]] /\ t[3] = cmpCloud[t[1]]
            /\ \A p \in CmpPaths :
                  /\ p \in s.unique_files_local_db
                        <=> (p \in DOMAIN cmpLocal /\ p \notin DOMAIN cmpCloud)
                  /\ p \in s.unique_files_cloud_db
                        <=> (p \in DOMAIN cmpCloud /\ p \notin DOMAIN cmpLocal)

\* C7 witness: the example local {a: h1, b: h2}, remote {a: h1, c: h2} with
\* local_only = {b}, remote_only = {c}, matching = {(a, h1)}, mismatched = {}
C7_Witness ==
    /\ cmpLocal = [p \in {<<Root, "a">>, <<Root, "b">>} |->
                      IF p = <<Root, "a">> THEN "h1" ELSE "h2"]
    /\ cmpCloud = [p \in {<<Root, "a">>, <<Root, "c">>} |->
                      IF p = <<Root, "a">> THEN "h1" ELSE "h2"]
    /\ cmpAB = Some([unique_files_local_db |-> {<<Root, "b">>},
                     unique_files_cloud_db |-> {<<Root, "c">>},
                     ok_files |-> {<<<<Root, "a">>, "h1">>},
                     bad_files |-> {}])

(***************************************************************************)
(* Properties of the executor.                                             *)
(***************************************************************************)
StepErrors == {"MergeError", "DeleteError", "ConfigOverwriteError", "DBOverwriteError"}

\* C1: a run that repeats the preceding, successful run (same descriptor,
\* started from the install that run left) raises nothing of its own and
\* ends with the install it started from.
C1_Idempotent ==
    chained =>
        /\ pc = "failed" => cause = "OSError"
        /\ pc \in {"restart", "done"} => startInstall = Some(Install)

\* The milestones of a complete run, in the order of main()
FullLog(cleanup) ==
    <<"gathered", "merged", "deleted", "config", "hash_db",
      IF cleanup THEN "cleaned" ELSE "left", "restart">>

LogInOrder ==
    /\ Len(log) <= 7
    /\ Len(log) > 0 => IsSome(details)
    /\ \A i \in 1..Len(log) : log[i] = FullLog(Val(details).cleanup)[i]

\* C2: the steps of a run occur in the order load, merge, delete, config
\* overwrite, manifest overwrite, cleanup, restart: the project files change
\* only before the config and the manifest are overwritten, the manifest is
\* overwritten only once every merge and every delete has completed and the
\* config is overwritten, the staging directory is removed only after both
\* overwrites, and the restart is issued only after all of them, without error.
C2_StepOrder ==
    /\ [](LogInOrder)
    /\ [][/\ (files' # files \/ dirs' # dirs) =>
                 (pc \in {"merge", "delete"} /\ Len(log) <= 2)
          /\ localConfig' # localConfig => log = <<"gathered", "merged", "deleted">>
          /\ localDbs' # localDbs =>
                 (/\ log = <<"gathered", "merged", "deleted", "config">>
                  /\ localConfig = staging.config)
          /\ (pc # "idle" /\ staging' # staging) => Len(log) = 5
          /\ (restarted' /\ ~restarted) => (Len(log) = 6 /\ err = "none")]_vars

\* C2 witness: a complete run that merged, deleted and restarted
C2_Witness ==
    /\ pc = "done"
    /\ restarted
    /\ Len(log) = 7
    /\ Len(Val(details).update) > 0
    /\ Len(Val(details).delete) > 0

\* The error kind of the step a run is in
KindOf(step) ==
    CASE step = "load" -> "GatherDetailsError"
      [] step = "merge" -> "MergeError"
      [] step = "delete" -> "DeleteError"
      [] step = "config" -> "ConfigOverwriteError"
      [] step = "hash_db" -> "DBOverwriteError"
      [] OTHER -> "none"

\* The milestones logged when a run fails with `kind`
LogAt(kind) ==
    CASE kind = "GatherDetailsError" -> <<>>
      [] kind = "MergeError" -> <<"gathered">>
      [] kind = "DeleteError" -> <<"gathered", "merged">>
      [] kind = "ConfigOverwriteError" -> <<"gathered", "merged", "deleted">>
      [] kind = "DBOverwriteError" -> <<"gathered", "merged", "deleted", "config">>
      [] OTHER -> <<>>

Merged(p) == p \in DOMAIN files /\ p \in DOMAIN staging.files /\ files[p] = staging.files[p]

\* What a failed run leaves: the milestones up to the failing step and no
\* later one, no restart, the files merged and deleted so far
FailedRunState ==
    err # "none" =>
        /\ pc = "failed"
        /\ ~restarted
        /\ log = LogAt(err)
        /\ err \in StepErrors =>
              LET d == Val(details)
              IN  /\ err = "MergeError" => \A i \in 1..(idx - 1) : Merged(d.update[i])
                  /\ err # "MergeError" => \A i \in 1..Len(d.update) : Merged(d.update[i])
                  /\ err = "DeleteError" =>
                        \A i \in 1..(idx - 1) : d.delete[i] \notin DOMAIN files
                  /\ err \in {"ConfigOverwriteError", "DBOverwriteError"} =>
                        \A i \in 1..Len(d.delete) : d.delete[i] \notin DOMAIN files

\* C3: a step that fails ends the run with the error kind of that step; the
\* files merged and deleted so far stay, no later step runs, none is
\* retried, the application is not restarted: nothing runs after the failure
\* but the start of a new application process, which leaves the install.
C3_FailStops ==
    /\ [](FailedRunState)
    /\ [][/\ (pc' = "failed" /\ pc # "failed") => err' = KindOf(pc)
          /\ pc = "failed" => (pc' = "idle" /\ Install' = Install /\ staging' = staging)]_vars

\* C3 witness: a merge that failed at its second file, the first one merged
C3_Witness ==
    /\ pc = "failed"
    /\ err = "MergeError"
    /\ idx = 2
    /\ Merged(Val(details).update[1])
    /\ ~Merged(Val(details).update[2])

\* C4 (detection, at the manifest overwrite step): after a run that applied
\* an available update and failed at the manifest overwrite, check_update
\* against the unchanged remote still reports the update.
C4_SelfHealDetects ==
    (pc = "failed" /\ err = "DBOverwriteError" /\ updAtLoad) =>
        /\ IsSome(localConfig)
        /\ check_update(cloudConfig, Val(localConfig)).has_update

(***************************************************************************)
(* Properties of the orchestrator.                                         *)
(***************************************************************************)
\* The order of the version strings of the model, written out
Rank(v) ==
    CASE v = V_1_9_0 -> 190
      [] v = V_1_9_9 -> 199
      [] v = V_1_10_0 -> 1100
      [] v = V_2_0_0 -> 200000

\* C8: a check_update call that returns reports has_update exactly when the
\* remote version is the greater one as versions (2.0.0 > 1.9.9 and
\* 1.10.0 > 1.9.0), whatever the two manifests hold.
C8_VersionOrder ==
    [][(nChecks' = nChecks + 1 /\ apiErr' = "none") =>
          /\ IsSome(checkResult')
          /\ Val(checkResult').has_update
                = (Rank(cloudConfig.version) > Rank(Val(localConfig).version))]_vars

\* C8 witness: 1.9.0 -> 1.10.0 reported as an update
C8_Witness ==
    /\ IsSome(checkResult)
    /\ Val(checkResult).has_update
    /\ Val(checkResult).web_version = <<1, 10, 0>>
    /\ Val(checkResult).local_version = <<1, 9, 0>>

\* C9: a check_update call changes neither the install nor the staging
\* area, and a call that follows another one returns what that one returned.
C9_CheckIsPure ==
    [][nChecks' = nChecks + 1 =>
          /\ Install' = Install
          /\ staging' = staging
          /\ (nChecks >= 1 /\ IsSome(checkResult) /\ apiErr' = "none") =>
                checkResult' = checkResult]_vars

\* C9 witness: two calls in a row, made with an update staged
C9_Witness ==
    /\ nChecks = 2
    /\ apiErr = "none"
    /\ IsSome(checkResult)
    /\ IsSome(staging.actions)
    /\ DOMAIN files # {}

\* C10: prepare_update writes a descriptor only when the remote version is
\* strictly greater than the local version.
C10_PrepareOnlyOnUpdate ==
    [][(pc = "idle" /\ staging' # staging /\ IsSome(staging'.actions)) =>
          /\ IsSome(localConfig)
          /\ Rank(cloudConfig.version) > Rank(Val(localConfig).version)]_vars

(***************************************************************************)
(* Properties of prepare_update.  The diff of the local and the remote     *)
(* manifest, written out path by path.                                     *)
(***************************************************************************)
LocalOnly(l, c) == DOMAIN l \ DOMAIN c
RemoteOnly(l, c) == DOMAIN c \ DOMAIN l
Mismatched(l, c) == {p \in DOMAIN l \cap DOMAIN c : l[p] # c[p]}
Matching(l, c) == {p \in DOMAIN l \cap DOMAIN c : l[p] = c[p]}

C12_DeleteList ==
    (IsSome(staging.actions) /\ IsSome(LocalDb)) =>
        LET delete == Val(staging.actions).delete
        IN  /\ Range(delete) = LocalOnly(Val(LocalDb), cloudDb)
            /\ Len(delete) = Cardinality(Range(delete))

\* C12 witness: a descriptor written without required_only that deletes a
\* local-only path while another path is mismatched
C12_Witness ==
    /\ IsSome(staging.actions)
    /\ IsSome(LocalDb)
    /\ ~cloudConfig.required_only
    /\ Len(Val(staging.actions).delete) = 1
    /\ Mismatched(Val(LocalDb), cloudDb) # {}

\* Both lists of the plan are empty under required_only: no local-only, no
\* remote-only and no mismatched path
EmptyPlan ==
    /\ IsSome(LocalDb)
    /\ LocalOnly(Val(LocalDb), cloudDb) = {}
    /\ RemoteOnly(Val(LocalDb), cloudDb) = {}
    /\ Mismatched(Val(LocalDb), cloudDb) = {}

\* C13: prepare_update raises NoUpdateError only with required_only true
\* and both lists empty, and then leaves no descriptor; a call that returns
\* has written a descriptor and was not made with required_only true and
\* both lists empty (so with required_only false it returns even when both
\* lists are empty).
C13_NoUpdateError ==
    /\ [](apiErr = "NoUpdateError" =>
             (cloudConfig.required_only /\ EmptyPlan /\ ~IsSome(staging.actions)))
    /\ [][(nChecks' = 0 /\ apiErr' = "none") =>
             (/\ IsSome(staging'.actions)
              /\ ~(cloudConfig.required_only /\ EmptyPlan))]_vars

\* C13 witness: NoUpdateError raised for a release whose files all match
C13_Witness ==
    /\ apiErr = "NoUpdateError"
    /\ cloudConfig.required_only
    /\ DOMAIN cloudDb # {}
    /\ ~IsSome(staging.actions)

\* C14: where a descriptor was written, every path of its merge list is a
\* file of the staging directory, and the remote config and the remote
\* manifest are in its settings folder.
C14_StagedBeforeDescriptor ==
    IsSome(staging.actions) =>
        /\ staging.exists
        /\ \A p \in Range(Val(staging.actions).update) : p \in DOMAIN staging.files
        /\ IsSome(staging.config)
        /\ IsSome(staging.hash_db)

\* C15: a prepare_update call that fails on a download leaves the install
\* (project files, local config, local manifests) as it was and writes no
\* descriptor.
C15_DownloadFailure ==
    [][(nChecks' = 0 /\ apiErr' = "ConnectionError") =>
          /\ Install' = Install
          /\ IsSome(staging'.actions) => staging' = staging]_vars

\* C15 witness: the second of two file downloads failed, the first file is
\* staged, no descriptor exists, the install holds files
C15_Witness ==
    /\ nChecks = 0
    /\ apiErr = "ConnectionError"
    /\ staging.exists
    /\ Cardinality(DOMAIN staging.files) = 1
    /\ ~IsSome(staging.actions)
    /\ DOMAIN files # {}

(***************************************************************************)
(* Properties of the hand-off and of the single executor steps.            *)
(***************************************************************************)
\* C16: update() changes nothing of the install or of the staging area: it
\* raises FileNotFoundError when the descriptor does not exist, otherwise
\* the application process is replaced by the executor; the install changes
\* only in the merge, delete and overwrite steps of the executor, when the
\* application process is gone.
C16_UpdateHandsOff ==
    /\ [](pc # "idle" => ~IsSome(mgr))
    /\ [][/\ (pc = "idle" /\ pc' # "idle") =>
                (/\ pc' = "load"
                 /\ IsSome(staging.actions)
                 /\ ~IsSome(mgr')
                 /\ Install' = Install
                 /\ staging' = staging)
          /\ (pc = "idle" /\ apiErr' = "FileNotFoundError") =>
                (/\ ~IsSome(staging.actions)
                 /\ pc' = "idle"
                 /\ Install' = Install
                 /\ staging' = staging)
          /\ Install' # Install =>
                (pc \in {"merge", "delete", "config", "hash_db"} /\ ~IsSome(mgr))]_vars

\* C16 witness: the executor, started by update(), has merged a file
C16_Witness ==
    /\ pc = "merge"
    /\ idx = 2
    /\ ~IsSome(mgr)
    /\ Merged(Val(details).update[1])

C18_MergePostcondition ==
    [][/\ pc = "merge" =>
             (staging' = staging /\ localConfig' = localConfig /\ localDbs' = localDbs)
       /\ (pc = "merge" /\ pc' = "delete") =>
             LET update == Range(Val(details).update)
                 before == Val(filesAtLoad)
             IN  /\ \A p \in update : Merged(p) /\ dirname(p) \in dirs \cup {Root}
                 /\ \A q \in Paths \ update :
                       /\ q \in DOMAIN files <=> q \in DOMAIN before
                       /\ q \in DOMAIN files => files[q] = before[q]]_vars

\* C18 witness: a completed merge of one file, the one path of the delete
\* list still to be deleted
C18_Witness ==
    /\ pc = "delete"
    /\ idx = 1
    /\ log = <<"gathered", "merged">>
    /\ Len(Val(details).update) = 1
    /\ Merged(Val(details).update[1])
    /\ Len(Val(details).delete) = 1

\* C19 (absent paths): a path of the delete list that is not in the install
\* is not an error: the delete step does not fail at such a path unless a
\* call fails for a reason outside the install.
C19_AbsentPathNoError ==
    [][(/\ pc = "delete"
        /\ pc' = "failed"
        /\ Val(details).delete[idx] \notin DOMAIN files) => cause' = "OSError"]_vars

(***************************************************************************)
(* A release whose config names its manifest files.db instead of the       *)
(* builder's hashes.db, the install carrying the same name.                *)
(***************************************************************************)
InitNamed ==
    /\ \E m \in Manifests : InitInstall(m, "files.db", V_1_9_0)
    /\ \E ro \in BOOLEAN, cl \in BOOLEAN :
          cloudConfig = Config(V_1_10_0, "cloud", "files.db", ro, cl)
    /\ cloudDb \in Manifests
    /\ InitRest
    /\ InitCmpIdle
    /\ InitBuildIdle
    /\ InitHashIdle
    /\ InitWebIdle
    /\ InitCfgIdle
    /\ InitUmIdle

SpecNamed == InitNamed /\ [][Next]_vars

\* C20: after a successful apply the manifest named by the local config's
\* hash_db, the one the next cycle reads, exists and has exactly the entries
\* of the remote manifest that was staged.
C20_ManifestIsBaseline ==
    (pc = "done" /\ restarted) =>
        /\ IsSome(localConfig)
        /\ IsSome(localDbs[Val(localConfig).hash_db])
        /\ Val(localDbs[Val(localConfig).hash_db]) = cloudDb

(***************************************************************************)
(* Properties of a run of the executor as a whole.                         *)
(***************************************************************************)
\* C21: after a successful apply the local config is the staged remote
\* config, and check_update against the unchanged remote reports no update.
C21_NotOfferedAgain ==
    (pc = "done" /\ restarted) =>
        /\ localConfig = Some(cloudConfig)
        /\ staging.exists => localConfig = staging.config
        /\ ~check_update(cloudConfig, Val(localConfig)).has_update

\* C21 witness: a successful apply of an update that was available
C21_Witness ==
    /\ pc = "done"
    /\ restarted
    /\ updAtLoad
    /\ localConfig = Some(cloudConfig)

C23_CrashRecord ==
    /\ [](err # "none" => pc = "failed")
    /\ [](pc = "failed" =>
             (/\ err # "none"
              /\ crashLog = <<err>>
              /\ IsSome(exitStatus) /\ Val(exitStatus) # 0
              /\ ~restarted))

\* C23 witness: a run that failed in its delete step
C23_Witness ==
    /\ pc = "failed"
    /\ err = "DeleteError"
    /\ crashLog = <<"DeleteError">>
    /\ exitStatus = Some(1)

(***************************************************************************)
(* Properties of the manifest build.                                       *)
(***************************************************************************)
\* The directories the caller excluded, by path or by pattern
ExcludedDirs ==
    {d \in UNION {{SubSeq(f, 1, n) : n \in 1..(Len(f) - 1)} : f \in DOMAIN hashDir.tree} :
        \/ d \in hashDir.exclude_paths
        \/ \E pattern \in hashDir.exclude_patterns : re_search(pattern, d)}
UnderExcluded(f) == \E d \in ExcludedDirs : IsPrefix(d, parent(f))
KeyOf(f) == SubSeq(f, Len(HashRoot) + 1, Len(f))

NotExcluded ==
    {f \in DOMAIN hashDir.tree :
        /\ ~UnderExcluded(f)
        /\ f \notin hashDir.exclude_paths
        /\ ~\E pattern \in hashDir.exclude_patterns : re_search(pattern, f)}

\* C25: after create_hash_db succeeded the persisted store holds exactly
\* one row per file that is not excluded, keyed by the path of the file
\* relative to the directory, with the SHA-256 of its content: no file is
\* missing, no two files share a key, no row of an earlier store survives.
C25_ManifestIsExact ==
    hasher.pc = "done" =>
        /\ \A f, g \in NotExcluded :
               relative_file_path(f, Val(hasher.path_basename))
                   = relative_file_path(g, Val(hasher.path_basename)) => f = g
        /\ DOMAIN hashStore.rows = {KeyOf(f) : f \in NotExcluded}
        /\ \A f \in NotExcluded : hashStore.rows[KeyOf(f)] = create_hash(hashDir.tree[f])

\* C26: when a file handed to create_hash cannot be hashed the build ends
\* with HashingError, and the destination store holds no row: neither a
\* placeholder for that file nor a row of a file hashed before it.
C26_FailedBuildPersistsNothing ==
    /\ (\E f \in hasher.opened : hashDir.tree[f] = Unreadable) => hasher.pc = "failed"
    /\ hasher.pc = "failed" =>
           /\ hasher.err = "HashingError"
           /\ hashStore.rows = EmptyRows
           /\ hashStore.pending = EmptyRows

\* A build that failed after it had hashed a readable file
C26_Witness ==
    /\ hasher.pc = "failed"
    /\ \E f, g \in hasher.opened :
           hashDir.tree[f] = Unreadable /\ hashDir.tree[g] # Unreadable
    /\ hashStore.exists

\* C27: computing the manifest-relative path of a file whose path does not
\* hold the name of the project root raises an error, and no row of a store
\* is keyed by an unstripped path.
C27_RootNameRequired ==
    /\ (IsSome(hasher.probe) /\ ~re_search(Val(hasher.path_basename), OutsideFile)) =>
           Val(hasher.probe).raised # "none"
    /\ \A key \in DOMAIN hashStore.rows \cup DOMAIN hashStore.pending :
           ~IsPrefix(HashRoot, key)

(***************************************************************************)
(* Properties of create_hash.                                              *)
(***************************************************************************)
\* The digest of a whole content, taken in one piece
sha256(bytes) == sha256_update(sha256_new, bytes)

Running == {u \in DOMAIN web.threads : web.threads[u] \in {"submitted", "writing"}}
FileComplete(u) == SavePath(u) \in DOMAIN web.disk /\ web.disk[SavePath(u)] = "complete"

\* C29: when download returns the task queue is empty, no download it
\* queued is still running and each destination file is written;
\* download_hash_db returns save_path, and the manifest is at save_path.
C29_DownloadBlocks ==
    web.pc = "returned" =>
        /\ web.task_queue = <<>>
        /\ Running = {}
        /\ web.call = "download_hash_db" =>
               /\ web.returned = Some(SavePath(HashDbUrl))
               /\ FileComplete(HashDbUrl)

\* C30: once the downloads of a batch have ended, download has reported
\* success only if every requested file is complete; a failed download ends
\* the call with an error.
C30_BatchFailureReported ==
    (web.pc = "returned" /\ Running = {}) =>
        /\ \A u \in web.requested : FileComplete(u)
        /\ \A u \in DOMAIN web.threads : web.threads[u] # "died"

\* C31: at every moment at most max_threads of the downloads started by
\* download are in progress (their request sent, their file being written).
C31_AtMostMaxThreads ==
    Cardinality({u \in DOMAIN web.threads : web.threads[u] = "writing"}) <= web.max_threads

(***************************************************************************)
(* Properties of the release config.                                       *)
(***************************************************************************)
HasAllKeys(doc) == doc.kind = "mapping" /\ doc.names = Range(RequiredKeys)
FirstMissingKey(doc) ==
    LET keys == IF doc.kind = "mapping" THEN doc.names ELSE {}
        missing == {i \in 1..Len(RequiredKeys) : RequiredKeys[i] \notin keys}
    IN  RequiredKeys[CHOOSE i \in missing : \A j \in missing : i <= j]

\* C32: load_yaml and loads_yaml succeed only for a config with all six
\* keys and return it unchanged; for a config that lacks a key they raise
\* ValueError naming the first missing key in the order version,
\* description, hash_db, startup_path, required_only, cleanup.
C32_SixKeysOrValueError ==
    /\ yamlOut.pc = "returned" =>
           HasAllKeys(yamlDoc) /\ yamlOut.data = Some(yamlDoc)
    /\ (yamlOut.pc # "idle" /\ ~HasAllKeys(yamlDoc)) =>
           /\ yamlOut.pc = "raised"
           /\ yamlOut.raised = "ValueError"
           /\ yamlOut.error = FirstMissingKey(yamlDoc)

(***************************************************************************)
(* Properties of the UpdateManager attributes.                             *)
(***************************************************************************)
\* C33: a construction or re-validation that reaches a local config lacking
\* a required key has made no network request before it reports the failure.
C33_ConfigCheckedFirst ==
    umOut.raised = "ValueError" => \A i \in 1..Len(umOut.steps) : umOut.steps[i] # "request"

\* C40: a url or project_path assignment that fails with URLNotValidError
\* or FileNotFoundError leaves the url, the project path, the config path,
\* the manifest path and the web client of the manager as they were.
C40_FailedSetterKeepsState ==
    (umOut.call \in {"url", "project_path"}
        /\ umOut.raised \in {"URLNotValidError", "FileNotFoundError"}) =>
        um = umOut.before

(***************************************************************************)
(* Properties of the hand-off from prepare_update to the executor.         *)
(***************************************************************************)
\* The keys main() reads from the loaded descriptor
DescriptorKeys ==
    {"update", "delete", "project_path", "downloads_directory", "startup_path",
     "cloud_config_path", "cloud_hash_db_path", "cleanup"}
WellFormed(d) ==
    /\ DOMAIN d = DescriptorKeys
    /\ d.project_path = Root
    /\ d.startup_path = cloudConfig.startup_path
    /\ d.cleanup = cloudConfig.cleanup

\* C36: a descriptor written by prepare_update has the eight fields the
\* executor reads, with the project root of the manager, the startup path
\* and the cleanup flag of the remote config; what the executor has loaded
\* is that descriptor, so no key it reads is absent.
C36_DescriptorComplete ==
    /\ IsSome(staging.actions) => WellFormed(Val(staging.actions))
    /\ IsSome(details) => WellFormed(Val(details))
    /\ (IsSome(details) /\ IsSome(staging.actions)) => details = staging.actions

\* The executor has gathered the details of a descriptor whose cleanup flag
\* is the one of the remote config, not of the local one
C36_Witness ==
    /\ pc = "merge"
    /\ IsSome(details)
    /\ details = staging.actions
    /\ Val(details).cleanup
    /\ IsSome(localConfig) /\ ~Val(localConfig).cleanup

(***************************************************************************)
(* Properties of prepare_update under a changing remote.                   *)
(***************************************************************************)
\* The staging directory st is what one release (config, db) gives
OneRelease(st, config, db) ==
    LET d == Val(st.actions)
        sum == compare_databases(Val(LocalDb), db)
    IN  /\ st.config = Some(config)
        /\ st.hash_db = Some(db)
        /\ d.cleanup = config.cleanup
        /\ Range(d.delete) = sum.unique_files_local_db
        /\ d.update \in get_files(config.required_only, sum, db)
        /\ DOMAIN st.files \subseteq DOMAIN db
        /\ \A f \in DOMAIN st.files : st.files[f] = ContentOf(db[f])
        /\ Range(d.update) \subseteq DOMAIN st.files

\* C37: the delete list, the merge list, the downloaded files and the
\* staged manifest and config of one prepare_update call all come from one
\* version of the remote release, also when the release is replaced
\* during the call.
C37_OneReleasePerCall ==
    IsSome(staging.actions) =>
        \E release \in NewReleases \cup
                       [config : {Config(V_1_10_0, "cloud", "hashes.db", ro, FALSE) :
                                     ro \in BOOLEAN},
                        db : Manifests] :
            OneRelease(staging, release.config, release.db)

\* C38: the merge list and the delete list of a descriptor have no path in
\* common.
C38_MergeDeleteDisjoint ==
    IsSome(staging.actions) =>
        Range(Val(staging.actions).update) \cap Range(Val(staging.actions).delete) = {}

(***************************************************************************)
(* Properties of the order of a manifest build.                            *)
(***************************************************************************)
\* The rows a build of the directory gives when the walk takes the
\* directories, and the files of a directory, in one fixed order
RECURSIVE RowsInFixedOrder(_, _)
RowsInFixedOrder(todo, rows) ==
    IF todo = {} THEN rows
    ELSE LET root == CHOOSE r \in todo : TRUE
             rest == todo \ {root}
         IN  IF \/ should_exclude_directory(hasher.exclude_dir_paths, root)
                \/ should_exclude_directory_by_pattern(hashDir.exclude_patterns, root)
             THEN RowsInFixedOrder(rest, rows)
             ELSE LET file_paths ==
                          exclude_files_by_pattern(
                              exclude_files_by_path(FilesIn(hashDir.tree, root),
                                                    hasher.exclude_file_paths),
                              hashDir.exclude_patterns)
                      order == CHOOSE o \in SeqsOf(file_paths) : TRUE
                      results ==
                          [i \in 1..Len(order) |->
                              <<relative_file_path(order[i], Val(hasher.path_basename)),
                                create_hash(hashDir.tree[order[i]])>>]
                  IN  RowsInFixedOrder(rest \cup DirsIn(hashDir.tree, root),
                                       process_batch_data(rows, results))

\* C35: for a given tree and given exclusions the built manifest is the
\* same set of entries whatever the order in which the walk meets the
\* directories and the files.
C35_OrderIndependent ==
    hasher.pc = "done" => hashStore.rows = RowsInFixedOrder({HashRoot}, EmptyRows)

\* C34: every result of the workers is passed to the store exactly once and
\* in order: what was inserted followed by what the batch holds is what was
\* produced, an insert inside the loop happens only with the budget of
\* max_time_per_batch seconds used up and empties the batch, the pending rows
\* are those of the inserted results, and after the walk nothing is left.
C34_InsertedExactlyOnce ==
    /\ hasher.pc = "walk" =>
           /\ hasher.inserted \o hasher.batch_data = hasher.produced
           /\ hashStore.pending = process_batch_data(EmptyRows, hasher.inserted)
    /\ hasher.pc = "done" =>
           /\ hasher.batch_data = <<>>
           /\ hasher.inserted = hasher.produced
           /\ hashStore.rows = process_batch_data(EmptyRows, hasher.produced)
    /\ \A i \in 1..Len(hasher.flushed_at) : hasher.flushed_at[i] >= max_time_per_batch

C34_Witness ==
    /\ hasher.pc = "done"
    /\ hasher.flushed_at # <<>>
    /\ Len(hasher.produced) >= 3
    /\ hasher.err = "none"

\* The walk of a build never opens a file of the release folder of the project
ReleaseFolderNotRead ==
    \A f \in hasher.opened : ~IsPrefix(PyupgraderFolder, f)

====
